---- MODULE Spec2Model ----
(***************************************************************************)
(* Zynx migration manager (src/src/core/zynx-manager.ts) with the          *)
(* PostgreSQL connection (src/unnamed/part_008, db-utils.ts), the          *)
(* FileManager (src/src/core/dbml-parser.ts:399-) and the schema differ    *)
(* (src/src/core/schema-differ.ts).                                        *)
(*                                                                         *)
(* The database is the state a PostgreSQL server keeps: the committed      *)
(* schema effects, the committed ledger rows and the working set of the    *)
(* transaction open on the manager's single connection.  Every round trip  *)
(* to the server and every file-system call either succeeds or raises;     *)
(* the outcome is an input of the action that makes the call.              *)
(***************************************************************************)
EXTENDS Integers, Sequences, FiniteSets, TLC

\* ------------------------------------------------------------------ bounds
MaxFile == 2        \* migration files are numbered 1..MaxFile

\* ------------------------------------------------------- JavaScript values
\* `undefined` and SQL NULL / JS null, kept as integers so that they compare
\* with migration numbers.
Undefined == 0 - 1
Null == 0 - 2

\* JS truthiness of a number-or-undefined-or-null value.
Falsy(v) == v = Undefined \/ v = Null \/ v = 0

\* `v || 0`
OrZero(v) == IF Falsy(v) THEN 0 ELSE v

\* `v || undefined`
OrUndefined(v) == IF Falsy(v) THEN Undefined ELSE v

\* --------------------------------------------------------- file contents
\* The text of a migration file is a sequence of tokens.  A token is a
\* record [type, table, name]: hand-written SQL text is "raw", the
\* statement terminator is "semi", white space is "ws".
Tok(t, tb, nm) == [type |-> t, table |-> tb, name |-> nm]
Semi == Tok("semi", "", <<";">>)
Ws == Tok("ws", "", <<" ">>)
Raw(s) == Tok("raw", "", <<s>>)

\* The texts a developer may put into a numbered migration file.
Contents ==
  { <<Raw("a"), Semi, Raw("b"), Semi>>,
    <<Raw("a"), Semi, Ws>> }

\* content.split(';') : the segments between terminators.
RECURSIVE SplitFrom(_, _, _)
SplitFrom(content, i, cur) ==
  IF i > Len(content) THEN <<cur>>
  ELSE IF content[i] = Semi
       THEN <<cur>> \o SplitFrom(content, i + 1, <<>>)
       ELSE SplitFrom(content, i + 1, Append(cur, content[i]))

split(content) == SplitFrom(content, 1, <<>>)

\* stmt.trim() is non-empty: the segment holds a token that is not white space.
trimNonEmpty(seg) == \E k \in 1..Len(seg) : seg[k] # Ws

\* content.split(';').filter(stmt => stmt.trim())
Statements(content) == SelectSeq(split(content), trimNonEmpty)

\* SHA-256 of the content, hex encoded: an injective tag of the content.
calculateChecksum(content) == <<"sha256", content>>

\* ------------------------------------------------------------ file names
\* A name in the migrations directory that ends in ".sql" is written as the
\* pair <<digits, n>>: the count of leading decimal digits and their value;
\* a name with no numeric stem (snapshot.sql) has digits = 0.
\* n.toString().padStart(4,'0') + ".sql"
FileName(n) == <<4, n>>
SnapshotSqlName == <<0, 0>>

\* filename.match(/^(\d+)\.sql$/) ? parseInt(match[1], 10) : 0
extractMigrationNumber(fname) == IF fname[1] > 0 THEN fname[2] ELSE 0

\* filename.match(/^\d{4}\.sql$/)
matchesFourDigits(fname) == fname[1] = 4

\* parseInt(filename.substring(0, 4), 10)
parseNumber(fname) == fname[2]

\* Array.prototype.sort with the comparator (a, b) => key(a) - key(b):
\* a stable insertion sort.
RECURSIVE insertName(_, _)
insertName(sorted, f) ==
  IF sorted = <<>> THEN <<f>>
  ELSE IF extractMigrationNumber(f) < extractMigrationNumber(Head(sorted))
       THEN <<f>> \o sorted
       ELSE <<Head(sorted)>> \o insertName(Tail(sorted), f)

RECURSIVE sortFileNames(_)
sortFileNames(names) ==
  IF names = <<>> THEN <<>>
  ELSE insertName(sortFileNames(SubSeq(names, 1, Len(names) - 1)), names[Len(names)])

\* The comparator with its operands exchanged: (a, b) => b.number - a.number.
RECURSIVE insertFile_descending(_, _)
insertFile_descending(sorted, m) ==
  IF sorted = <<>> THEN <<m>>
  ELSE IF m.number > Head(sorted).number
       THEN <<m>> \o sorted
       ELSE <<Head(sorted)>> \o insertFile_descending(Tail(sorted), m)

RECURSIVE insertFile(_, _)
insertFile(sorted, m) ==
  IF sorted = <<>> THEN <<m>>
  ELSE IF m.number < Head(sorted).number
       THEN <<m>> \o sorted
       ELSE <<Head(sorted)>> \o insertFile(Tail(sorted), m)

RECURSIVE sortByNumber(_)
sortByNumber(ms) ==
  IF ms = <<>> THEN <<>>
  ELSE insertFile(sortByNumber(SubSeq(ms, 1, Len(ms) - 1)), ms[Len(ms)])

\* The orders in which Deno.readDir may enumerate a set of names.
Listings(names) ==
  { l \in [1..Cardinality(names) -> names] :
      \A i, j \in 1..Cardinality(names) : i # j => l[i] # l[j] }

\* ------------------------------------------------------------ sequences
Last(q) == q[Len(q)]
SeqSet(q) == { q[i] : i \in 1..Len(q) }
StrictlyAscending(q) == \A i, j \in 1..Len(q) : i < j => q[i] < q[j]

RECURSIVE Concat(_)
Concat(seqs) == IF seqs = <<>> THEN <<>> ELSE Head(seqs) \o Concat(Tail(seqs))

\* -------------------------------------------------------- DBML and schema
\* The text of the schema file is written as the structure the external
\* parser (@atikayda/dbml-pg) yields for it.  A column default is
\* [kind, value] with kind "none", "value" or "expression"; an absent index
\* or reference name is "", an absent action is "no action" or "".
NoDefault == [kind |-> "none", value |-> ""]
Column(nm, ty, pk, uq, nn, df) ==
  [name |-> nm, type |-> ty, pk |-> pk, unique |-> uq, notNull |-> nn, default |-> df]
AstIndex(nm, cols, uq, pk, ty) ==
  [name |-> nm, columns |-> cols, unique |-> uq, pk |-> pk, type |-> ty]
AstTable(nm, cols, idxs) == [name |-> nm, columns |-> cols, indexes |-> idxs]
AstRef(nm, ft, fc, tt, tc, rt, od, ou) ==
  [name |-> nm, from |-> [table |-> ft, column |-> fc], to |-> [table |-> tt, column |-> tc],
   refType |-> rt, onDelete |-> od, onUpdate |-> ou]

UsersTable == AstTable("users", <<Column("id", "int", TRUE, FALSE, FALSE, NoDefault)>>, <<>>)
UsersEmailTable ==
  AstTable("users",
           <<Column("id", "int", TRUE, FALSE, FALSE, NoDefault),
             Column("email", "varchar", FALSE, TRUE, TRUE, [kind |-> "value", value |-> "x"])>>,
           <<>>)
PostsTable ==
  AstTable("posts",
           <<Column("id", "int", TRUE, FALSE, FALSE, NoDefault),
             Column("user_id", "int", FALSE, FALSE, TRUE, NoDefault)>>,
           <<AstIndex("", <<"user_id">>, FALSE, FALSE, "")>>)

SrcUsers == [tables |-> <<UsersTable>>, refs |-> <<>>]
SrcUsersEmail == [tables |-> <<UsersEmailTable>>, refs |-> <<>>]
SrcBlog ==
  [tables |-> <<UsersTable, PostsTable>>,
   refs |-> <<AstRef("", "posts", "user_id", "users", "id", ">", "no action", "")>>]
SrcBlogCascade ==
  [tables |-> <<UsersTable, PostsTable>>,
   refs |-> <<AstRef("", "posts", "user_id", "users", "id", ">", "cascade", "")>>]

\* The schema files of the model.
Sources == {SrcUsers, SrcUsersEmail, SrcBlog, SrcBlogCascade}

\* Schema files for the differ: table names are unique and column names are
\* unique within a table.  The email column in its base form and with one
\* attribute changed; posts with and without its index and its reference.
BaseEmail == Column("email", "varchar", FALSE, FALSE, FALSE, NoDefault)
EmailVariants ==
  { BaseEmail,
    Column("email", "text", FALSE, FALSE, FALSE, NoDefault),
    Column("email", "varchar", TRUE, FALSE, FALSE, NoDefault),
    Column("email", "varchar", FALSE, TRUE, FALSE, NoDefault),
    Column("email", "varchar", FALSE, FALSE, TRUE, NoDefault),
    Column("email", "varchar", FALSE, FALSE, FALSE, [kind |-> "value", value |-> "x"]),
    Column("email", "text", FALSE, TRUE, TRUE, [kind |-> "value", value |-> "x"]) }
UsersWith(col) ==
  AstTable("users", <<Column("id", "int", TRUE, FALSE, FALSE, NoDefault), col>>, <<>>)
PostsColumns ==
  <<Column("id", "int", TRUE, FALSE, FALSE, NoDefault),
    Column("user_id", "int", FALSE, FALSE, TRUE, NoDefault)>>
PostsPlain == AstTable("posts", PostsColumns, <<>>)
PostsUniqueIndex ==
  AstTable("posts", PostsColumns, <<AstIndex("", <<"user_id">>, TRUE, FALSE, "")>>)
DiffSources ==
  Sources
  \cup { [tables |-> <<>>, refs |-> <<>>] }
  \cup { [tables |-> <<UsersWith(c)>>, refs |-> <<>>] : c \in EmailVariants }
  \cup { [tables |-> <<UsersTable, PostsPlain>>, refs |-> <<>>],
         [tables |-> <<UsersTable, PostsTable>>, refs |-> <<>>],
         [tables |-> <<UsersTable, PostsUniqueIndex>>, refs |-> <<>>],
         [tables |-> <<PostsPlain>>, refs |-> <<>>],
         [tables |-> <<PostsPlain, UsersWith(BaseEmail)>>,
          refs |-> <<AstRef("", "posts", "user_id", "users", "id", ">", "no action", "")>>] }

\* `undefined` for a string-valued property.
UndefStr == "undefined"

\* DBMLParser.extractFields
extractFields(columns) ==
  [i \in 1..Len(columns) |->
     [name |-> columns[i].name,
      type |-> columns[i].type,
      pk |-> columns[i].pk,
      unique |-> columns[i].unique,
      not_null |-> columns[i].notNull,
      default |-> IF columns[i].default.kind = "none" THEN UndefStr
                  ELSE columns[i].default.value]]

\* DBMLParser.extractTableIndexes
extractTableIndexes(indexes, tableName) ==
  [i \in 1..Len(indexes) |->
     [name |-> indexes[i].name,
      tableName |-> tableName,
      columns |-> indexes[i].columns,
      type |-> indexes[i].type,
      unique |-> (indexes[i].unique \/ indexes[i].pk),
      pk |-> indexes[i].pk]]

\* DBMLParser.extractTables
extractTables(src) ==
  [i \in 1..Len(src.tables) |->
     [name |-> src.tables[i].name,
      fields |-> extractFields(src.tables[i].columns),
      indexes |-> extractTableIndexes(src.tables[i].indexes, src.tables[i].name)]]

\* DBMLParser.extractIndexes
extractIndexes(src) ==
  Concat([i \in 1..Len(src.tables) |->
            extractTableIndexes(src.tables[i].indexes, src.tables[i].name)])

\* DBMLParser.normalizeRefType
normalizeRefType(refType) ==
  CASE refType = "-" -> "one-to-one"
    [] refType = ">" -> "one-to-many"
    [] refType = "<" -> "many-to-one"
    [] refType = "<>" -> "many-to-many"
    [] OTHER -> "one-to-many"

noAction(a) == IF a = "no action" \/ a = "" THEN UndefStr ELSE a

\* DBMLParser.extractRefs
extractRefs(src) ==
  [i \in 1..Len(src.refs) |->
     [name |-> src.refs[i].name,
      from |-> src.refs[i].from,
      to |-> src.refs[i].to,
      type |-> normalizeRefType(src.refs[i].refType),
      onDelete |-> noAction(src.refs[i].onDelete),
      onUpdate |-> noAction(src.refs[i].onUpdate)]]

\* DBMLParser.parse
parse(src) ==
  [tables |-> extractTables(src), indexes |-> extractIndexes(src), refs |-> extractRefs(src)]

\* ----------------------------------------------------------- SchemaDiffer
\* A SchemaChange: its type, table, name and SQL; name and SQL are sequences
\* of words.
Change(ty, tb, nm, sql) == [type |-> ty, table |-> tb, name |-> nm, sql |-> sql]

\* Map built by forEach(x => map.set(key(x), x)): has / get (the last value
\* set for a key) and the entries in insertion order of their keys.
mapHas(items, K(_), k) == \E i \in 1..Len(items) : K(items[i]) = k
mapGet(items, K(_), k) ==
  items[CHOOSE i \in 1..Len(items) :
          K(items[i]) = k /\ \A j \in (i + 1)..Len(items) : K(items[j]) # k]
mapEntries(items, K(_)) ==
  Concat([i \in 1..Len(items) |->
            IF \A j \in 1..(i - 1) : K(items[j]) # K(items[i])
            THEN << [key |-> K(items[i]), value |-> mapGet(items, K, K(items[i]))] >>
            ELSE <<>>])

nameOf(x) == x.name

\* SchemaDiffer.generateFieldSQL
generateFieldSQL(field) ==
  <<field.name, field.type>>
  \o (IF field.pk THEN <<"PRIMARY KEY">> ELSE <<>>)
  \o (IF field.unique THEN <<"UNIQUE">> ELSE <<>>)
  \o (IF field.not_null THEN <<"NOT NULL">> ELSE <<>>)
  \o (IF field.default # UndefStr /\ field.default # "" THEN <<"DEFAULT", field.default>> ELSE <<>>)

\* SchemaDiffer.generateCreateTableSQL
generateCreateTableSQL(table) ==
  <<"CREATE TABLE", table.name>>
  \o Concat([i \in 1..Len(table.fields) |-> generateFieldSQL(table.fields[i])])

\* A comparison that reports the type of every column as changed.
compareFields_alwaysRetypes(tableName, oldField, newField) ==
  << Change("alter_table", tableName, <<"alter", newField.name, "type">>,
            <<"ALTER TABLE", tableName, "ALTER COLUMN", newField.name, "TYPE", newField.type>>) >>

\* A comparison that looks at the type of the column only.
compareFields_typeOnly(tableName, oldField, newField) ==
  IF oldField.type # newField.type
  THEN << Change("alter_table", tableName, <<"alter", newField.name, "type">>,
                 <<"ALTER TABLE", tableName, "ALTER COLUMN", newField.name, "TYPE", newField.type>>) >>
  ELSE <<>>

\* SchemaDiffer.compareFields
compareFields(tableName, oldField, newField) ==
  (IF oldField.type # newField.type
   THEN << Change("alter_table", tableName, <<"alter", newField.name, "type">>,
                  <<"ALTER TABLE", tableName, "ALTER COLUMN", newField.name, "TYPE", newField.type>>) >>
   ELSE <<>>)
  \o
  (IF oldField.not_null # newField.not_null
   THEN << Change("alter_table", tableName, <<"alter", newField.name, "null">>,
                  <<"ALTER TABLE", tableName, "ALTER COLUMN", newField.name,
                    IF newField.not_null THEN "SET NOT NULL" ELSE "DROP NOT NULL">>) >>
   ELSE <<>>)
  \o
  (IF oldField.default # newField.default
   THEN IF newField.default # UndefStr /\ newField.default # ""
        THEN << Change("alter_table", tableName, <<"alter", newField.name, "default">>,
                       <<"ALTER TABLE", tableName, "ALTER COLUMN", newField.name,
                         "SET DEFAULT", newField.default>>) >>
        ELSE << Change("alter_table", tableName, <<"alter", newField.name, "default">>,
                       <<"ALTER TABLE", tableName, "ALTER COLUMN", newField.name,
                         "DROP DEFAULT">>) >>
   ELSE <<>>)
  \o
  (IF oldField.unique # newField.unique
   THEN IF newField.unique
        THEN << Change("alter_table", tableName, <<"add_unique", newField.name>>,
                       <<"ALTER TABLE", tableName, "ADD CONSTRAINT", "uk", tableName,
                         newField.name, "UNIQUE", newField.name>>) >>
        ELSE << Change("alter_table", tableName, <<"drop_unique", newField.name>>,
                       <<"ALTER TABLE", tableName, "DROP CONSTRAINT IF EXISTS", "uk",
                         tableName, newField.name>>) >>
   ELSE <<>>)

\* SchemaDiffer.compareTableFields
compareTableFields(oldTable, newTable) ==
  Concat([i \in 1..Len(newTable.fields) |->
            IF ~mapHas(oldTable.fields, nameOf, newTable.fields[i].name)
            THEN << Change("alter_table", newTable.name, <<"add", newTable.fields[i].name>>,
                           <<"ALTER TABLE", newTable.name, "ADD COLUMN">>
                           \o generateFieldSQL(newTable.fields[i])) >>
            ELSE <<>>])
  \o
  Concat([i \in 1..Len(newTable.fields) |->
            IF mapHas(oldTable.fields, nameOf, newTable.fields[i].name)
            THEN compareFields(oldTable.name,
                               mapGet(oldTable.fields, nameOf, newTable.fields[i].name),
                               newTable.fields[i])
            ELSE <<>>])
  \o
  Concat([i \in 1..Len(oldTable.fields) |->
            IF ~mapHas(newTable.fields, nameOf, oldTable.fields[i].name)
            THEN << Change("alter_table", newTable.name, <<"drop", oldTable.fields[i].name>>,
                           <<"ALTER TABLE", newTable.name, "DROP COLUMN IF EXISTS",
                             oldTable.fields[i].name>>) >>
            ELSE <<>>])

\* SchemaDiffer.compareTableStructure
compareTableStructure(oldSchema, newSchema) ==
  Concat([i \in 1..Len(newSchema.tables) |->
            IF ~mapHas(oldSchema.tables, nameOf, newSchema.tables[i].name)
            THEN << Change("create_table", newSchema.tables[i].name,
                           <<newSchema.tables[i].name>>,
                           generateCreateTableSQL(newSchema.tables[i])) >>
            ELSE <<>>])
  \o
  Concat([i \in 1..Len(newSchema.tables) |->
            IF mapHas(oldSchema.tables, nameOf, newSchema.tables[i].name)
            THEN compareTableFields(mapGet(oldSchema.tables, nameOf, newSchema.tables[i].name),
                                    newSchema.tables[i])
            ELSE <<>>])
  \o
  Concat([i \in 1..Len(oldSchema.tables) |->
            IF ~mapHas(newSchema.tables, nameOf, oldSchema.tables[i].name)
            THEN << Change("drop_table", oldSchema.tables[i].name,
                           <<oldSchema.tables[i].name>>,
                           <<"DROP TABLE IF EXISTS", oldSchema.tables[i].name>>) >>
            ELSE <<>>])

\* `${index.tableName}.${index.name || index.columns.join('_')}`
indexKey(index) ==
  <<index.tableName>> \o (IF index.name # "" THEN <<index.name>> ELSE index.columns)

\* index.name || `idx_${index.tableName}_${index.columns.join('_')}`
indexName(index) ==
  IF index.name # "" THEN <<index.name>> ELSE <<"idx", index.tableName>> \o index.columns

\* SchemaDiffer.generateCreateIndexSQL
generateCreateIndexSQL(index) ==
  <<"CREATE">> \o (IF index.unique THEN <<"UNIQUE">> ELSE <<>>) \o <<"INDEX">>
  \o indexName(index) \o <<"ON", index.tableName>>
  \o (IF index.type # "" THEN <<"USING", index.type>> ELSE <<>>) \o index.columns

\* SchemaDiffer.compareIndexes
compareIndexes(oldSchema, newSchema) ==
  LET oldIndexes == mapEntries(oldSchema.indexes, indexKey)
      newIndexes == mapEntries(newSchema.indexes, indexKey)
  IN Concat([i \in 1..Len(newIndexes) |->
               IF ~mapHas(oldSchema.indexes, indexKey, newIndexes[i].key)
               THEN << Change("create_index", newIndexes[i].value.tableName,
                              indexName(newIndexes[i].value),
                              generateCreateIndexSQL(newIndexes[i].value)) >>
               ELSE <<>>])
     \o
     Concat([i \in 1..Len(oldIndexes) |->
               IF ~mapHas(newSchema.indexes, indexKey, oldIndexes[i].key)
               THEN << Change("drop_index", oldIndexes[i].value.tableName,
                              indexName(oldIndexes[i].value),
                              <<"DROP INDEX IF EXISTS">> \o indexName(oldIndexes[i].value)) >>
               ELSE <<>>])

\* A key that also tells the actions of the reference.
refKey_withActions(ref) ==
  <<ref.from.table, ref.from.column, ref.to.table, ref.to.column, ref.onDelete, ref.onUpdate>>

\* `${ref.from.table}.${ref.from.column}->${ref.to.table}.${ref.to.column}`
refKey(ref) == <<ref.from.table, ref.from.column, ref.to.table, ref.to.column>>

\* ref.name || `fk_${ref.from.table}_${ref.from.column}`
refName(ref) == IF ref.name # "" THEN <<ref.name>> ELSE <<"fk", ref.from.table, ref.from.column>>

\* SchemaDiffer.generateAddForeignKeySQL
generateAddForeignKeySQL(ref) ==
  <<"ALTER TABLE", ref.from.table, "ADD CONSTRAINT">> \o refName(ref)
  \o <<"FOREIGN KEY", ref.from.column, "REFERENCES", ref.to.table, ref.to.column>>
  \o (IF ref.onDelete # UndefStr THEN <<"ON DELETE", ref.onDelete>> ELSE <<>>)
  \o (IF ref.onUpdate # UndefStr THEN <<"ON UPDATE", ref.onUpdate>> ELSE <<>>)

\* SchemaDiffer.compareForeignKeys
compareForeignKeys(oldSchema, newSchema) ==
  LET oldRefs == mapEntries(oldSchema.refs, refKey)
      newRefs == mapEntries(newSchema.refs, refKey)
  IN Concat([i \in 1..Len(newRefs) |->
               IF ~mapHas(oldSchema.refs, refKey, newRefs[i].key)
               THEN << Change("add_foreign_key", newRefs[i].value.from.table,
                              refName(newRefs[i].value),
                              generateAddForeignKeySQL(newRefs[i].value)) >>
               ELSE <<>>])
     \o
     Concat([i \in 1..Len(oldRefs) |->
               IF ~mapHas(newSchema.refs, refKey, oldRefs[i].key)
               THEN << Change("drop_foreign_key", oldRefs[i].value.from.table,
                              refName(oldRefs[i].value),
                              <<"ALTER TABLE", oldRefs[i].value.from.table,
                                "DROP CONSTRAINT IF EXISTS">> \o refName(oldRefs[i].value)) >>
               ELSE <<>>])

\* SchemaDiffer.compare (and its alias diff)
compare(oldSchema, newSchema) ==
  compareTableStructure(oldSchema, newSchema)
  \o compareIndexes(oldSchema, newSchema)
  \o compareForeignKeys(oldSchema, newSchema)

\* ------------------------------------------------------ PostgreSQLGenerator
\* A statement of generated SQL text: its token, the terminator, a line break.
SqlStatement(kind, table, words) == <<Tok(kind, table, words), Semi, Ws>>

\* generateMigrationSQL(changes): the SQL of every change, in the order given.
generateMigrationSQL(changes) ==
  IF Len(changes) = 0 THEN <<Ws>>
  ELSE Concat([i \in 1..Len(changes) |->
                 SqlStatement(changes[i].type, changes[i].table, changes[i].sql)])

\* generateCreateSchema(schema) = BaseGenerator.generateCompleteSchema: one
\* CREATE TABLE per table, one CREATE INDEX per index, one ADD CONSTRAINT per
\* reference.  (Header, setup and footer text are not modelled.)
generateCreateSchema(schema) ==
  Concat([i \in 1..Len(schema.tables) |->
            SqlStatement("schema_table", schema.tables[i].name,
                         generateCreateTableSQL(schema.tables[i]))])
  \o Concat([i \in 1..Len(schema.indexes) |->
               SqlStatement("schema_index", schema.indexes[i].tableName,
                            indexName(schema.indexes[i]))])
  \o Concat([i \in 1..Len(schema.refs) |->
               SqlStatement("schema_ref", schema.refs[i].from.table, refName(schema.refs[i]))])

\* ---------------------------------------------------------------- state
VARIABLES
  migrations,         \* numbered files of the migrations directory: number -> content
  snapshotSql,        \* snapshot.sql: [exists, content]
  snapshotDbml,       \* snapshot.dbml: [exists, content]
  schemaFile,         \* the text of the schema file (config.schema.path)
  genResult,          \* the GenerationResult generate() returned last
  genOutcome,         \* how the last generate() ended: "none", "returned", "raised"
  genOpts,            \* GenerateOptions of the last generate()
  genWrote,           \* history: the files the last generate() wrote
  prevGen,            \* history: the generate() before the last one, while the
                      \* schema file has not changed since
  genCall,            \* history: the directory when the last generate() started,
                      \* the number of the migration file it wrote (0: none),
                      \* whether a call was cut short by a failing write
                      \* ("raised") and the schema file edited since
                      \* ("edited"), and whether force was ever set
  ledgerTable,        \* the ledger table exists (committed)
  ledger,             \* committed ledger rows
  schemaDb,           \* committed effects of migration statements: <<number, index>>
  txOpen,             \* a transaction is open on the manager's connection
  txEffects,          \* statement effects of the open transaction
  txRows,             \* ledger rows inserted by the open transaction
  connected,          \* PostgreSQLConnection.connected
  client,             \* PostgreSQLConnection.client is not null
  pc,                 \* position of the manager operation in progress
  options,            \* RunOptions of the run() in progress
  currentMigration,   \* run(): const currentMigration
  pendingMigrations,  \* run(): const pendingMigrations (sequence of MigrationFile)
  idx,                \* run(): position of the for loop in pendingMigrations
  stmtIdx,            \* run(): position of the inner loop in statements
  migrationsApplied,  \* run(): const migrationsApplied (numbers)
  healthCheck,        \* getStatus(): healthCheck.healthy
  migrationTableExists, \* getStatus(): const migrationTableExists
  appliedMigrations,  \* getStatus(): const appliedMigrations (numbers)
  runResult,          \* the MigrationResult run() returned last
  statusResult,       \* the DatabaseStatus getStatus() returned last
  returned,           \* which operation returned last: "none", "run", "status"
  begun,              \* history: migrations whose transaction this run started
  committedInRun,     \* history: migrations whose transaction this run committed
  preSchema,          \* history: schemaDb when the last transaction started
  preLedger,          \* history: ledger when the last transaction started
  startLedger,        \* history: ledger when the operation started
  failedMig,          \* history: the migration whose transaction failed, 0 if none
  fault,              \* history: an external call raised during this operation
  peer,               \* a run() of a second process on the same database and
                      \* directory: its position, locals and open transaction
  differ,             \* a call of SchemaDiffer.compare: its two schemas, the
                      \* change list, and the schema after applying the list
  cli,                \* the run command after zynx.run() returned: what it
                      \* printed and the exit code of the process
  resolver            \* a call of FeatureRegistry.resolve: the registry, the
                      \* requested names, the calls of visit in progress,
                      \* `resolved` and `features`

dbVars == <<ledgerTable, ledger, schemaDb, txOpen, txEffects, txRows>>
connVars == <<connected, client>>
runLocals == <<options, currentMigration, pendingMigrations, idx, stmtIdx, migrationsApplied>>
statusLocals == <<healthCheck, migrationTableExists, appliedMigrations>>
genState == <<snapshotSql, snapshotDbml, schemaFile, genResult, genOutcome, genOpts,
              genWrote, prevGen, genCall>>
fileVars == <<migrations, genState>>
histVars == <<begun, committedInRun, preSchema, preLedger, startLedger, failedMig>>
vars == <<fileVars, dbVars, connVars, pc, runLocals, statusLocals,
          runResult, statusResult, returned, histVars, fault, peer, differ, cli, resolver>>

Numbers(rows) == { r.number : r \in rows }

\* SELECT MAX(number): the largest number, SQL NULL over an empty table.
MaxNumber(rows) ==
  IF rows = {} THEN Null
  ELSE CHOOSE n \in Numbers(rows) : \A k \in Numbers(rows) : k <= n

\* ------------------------------------------------------------ the driver
\* client.query(sql, params) of npm:pg (deno.json "pg": "npm:pg@^8.11.0")
\* resolves to a result whose rows are objects keyed by column name.  A row
\* is a function from property names to values.
pgRow(columns, values) ==
  [ c \in { columns[i] : i \in 1..Len(columns) } |->
      values[CHOOSE i \in 1..Len(columns) : columns[i] = c] ]

\* row[0] on a row of the result: the property named "0", undefined when the
\* row has no such property.
HasProp0(row) == "0" \in DOMAIN row
Prop0(row) == IF HasProp0(row) THEN row["0"] ELSE Undefined

\* SELECT MAX(number) as current_migration FROM <ledger>
queryMaxNumber(rows) == << pgRow(<<"current_migration">>, <<MaxNumber(rows)>>) >>

\* SELECT EXISTS (SELECT FROM information_schema.tables ...)
queryTableExists(exists) == << pgRow(<<"exists">>, <<exists>>) >>

\* SELECT number, filename, checksum, applied_at FROM <ledger> ORDER BY number
\* (applied_at is a server timestamp and is not modelled.)
RECURSIVE rowsInOrder(_)
rowsInOrder(rows) ==
  IF rows = {} THEN <<>>
  ELSE LET least == CHOOSE r \in rows : \A q \in rows : r.number <= q.number
       IN <<pgRow(<<"number">>, <<least.number>>)>> \o rowsInOrder(rows \ {least})

queryApplied(rows) == rowsInOrder(rows)

\* --------------------------------------------- PostgreSQLConnection methods
\* connect(): returns at once when already connected; otherwise the client
\* object is created, and `connected` is set only when client.connect() resolves.
connectRaises(ok) == ~connected /\ ~ok
connect(ok) ==
  IF connected THEN UNCHANGED connVars
  ELSE /\ client' = TRUE
       /\ connected' = ok

\* disconnect(): a no-op unless connected; when client.end() raises the error
\* is logged and `connected` and `client` keep their values.
disconnect(endOk) ==
  IF ~connected \/ ~client THEN UNCHANGED connVars
  ELSE IF endOk THEN connected' = FALSE /\ client' = FALSE
       ELSE UNCHANGED connVars

\* query()/execute() raise when not connected, and when the server or the
\* transport fails the statement.
roundTripOk(ok) == connected /\ client /\ ok

\* ------------------------------------------------------- manager helpers
\* getCurrentMigration(): the MAX query, row[0], `|| undefined`; any error of
\* the query is caught and gives undefined.
getCurrentMigration(ok) ==
  IF ~(roundTripOk(ok) /\ ledgerTable) THEN Undefined
  ELSE LET result == queryMaxNumber(ledger)
       IN OrUndefined(IF Len(result) >= 1 THEN Prop0(result[1]) ELSE Undefined)

\* getAppliedMigrations(): number: row[0] of every row; [] on any error.
getAppliedMigrations(ok) ==
  IF ~(roundTripOk(ok) /\ ledgerTable) THEN <<>>
  ELSE LET result == queryApplied(ledger)
       IN [i \in 1..Len(result) |-> Prop0(result[i])]

\* DatabaseUtils.tableExists(): !!(result[0] && result[0][0] === true)
tableExists(exists) ==
  LET result == queryTableExists(exists)
  IN Len(result) >= 1 /\ HasProp0(result[1]) /\ result[1]["0"] = TRUE

\* FileManager.getMigrationFiles(): the ".sql" names of the directory in
\* readDir order, then sorted by migration number.
sqlNames == { FileName(n) : n \in DOMAIN migrations }
            \cup (IF snapshotSql.exists THEN {SnapshotSqlName} ELSE {})

MigrationFile(fname) ==
  [number |-> parseNumber(fname),
   filename |-> fname,
   content |-> migrations[parseNumber(fname)],
   checksum |-> calculateChecksum(migrations[parseNumber(fname)])]

\* ZynxManager.getMigrationFiles(): keep the names of four digits, read each
\* file, sort by number.
getMigrationFiles(listing) ==
  LET files == sortFileNames(listing)
      kept == SelectSeq(files, matchesFourDigits)
  IN sortByNumber([i \in 1..Len(kept) |-> MigrationFile(kept[i])])

\* The run command has not reported.
NoCli == [done |-> FALSE, exit |-> 0, printed |-> "nothing"]

\* ----------------------------------------------------------------- Init
NoRunResult == [success |-> TRUE, migrationsApplied |-> <<>>, currentMigration |-> 0]

\* getStatus(), catch block: the "disconnected" report.
DisconnectedReport ==
  [connected |-> FALSE, migrationsTableExists |-> FALSE, currentVersion |-> 0,
   latestVersion |-> 0, currentMigration |-> Undefined,
   appliedMigrations |-> <<>>, pendingMigrations |-> <<>>,
   fileSystemMigrations |-> <<>>]

NoOptions == [target |-> 0, single |-> FALSE, dryRun |-> FALSE]

NoFileName == <<0, 0 - 1>>
NoSqlFile == [exists |-> FALSE, content |-> <<>>]
NoDbmlFile == [exists |-> FALSE, content |-> [tables |-> <<>>, refs |-> <<>>]]
File(content) == [exists |-> TRUE, content |-> content]
NoGenResult == [filename |-> NoFileName, sql |-> <<>>, changes |-> <<>>]
NoGenOpts == [force |-> FALSE, dryRun |-> FALSE]
NoPrevGen == [valid |-> FALSE, outcome |-> "none", opts |-> NoGenOpts, wrote |-> {}]
\* The second process before its run(): no locals, no transaction.
NoPeer ==
  [pc |-> "idle", pendingMigrations |-> <<>>, idx |-> 1, stmtIdx |-> 1,
   txEffects |-> {}, txRows |-> {}, begun |-> {}, committed |-> {}, failedMig |-> 0]

NoGenCall ==
  [before |-> [migrations |-> <<>>, snapshotSql |-> NoSqlFile, snapshotDbml |-> NoDbmlFile],
   number |-> 0, interruption |-> "none", forced |-> FALSE]

\* The directory is empty (a new project), or holds what the first generate()
\* of the project wrote for the schema file.
Constructed ==
  /\ schemaFile = SrcUsers
  /\ \E generated \in BOOLEAN :
        IF generated
        THEN /\ migrations = [n \in {1} |-> generateCreateSchema(parse(SrcUsers))]
             /\ snapshotSql = File(generateCreateSchema(parse(SrcUsers)))
             /\ snapshotDbml = File(SrcUsers)
        ELSE /\ migrations = <<>>
             /\ snapshotSql = NoSqlFile
             /\ snapshotDbml = NoDbmlFile
  /\ genResult = NoGenResult
  /\ genOutcome = "none"
  /\ genOpts = NoGenOpts
  /\ genWrote = {}
  /\ prevGen = NoPrevGen
  /\ genCall = NoGenCall
  /\ ledgerTable = FALSE
  /\ ledger = {}
  /\ schemaDb = {}
  /\ txOpen = FALSE
  /\ txEffects = {}
  /\ txRows = {}
  /\ connected = FALSE
  /\ client = FALSE
  /\ pc = "idle"
  /\ options = NoOptions
  /\ currentMigration = Undefined
  /\ pendingMigrations = <<>>
  /\ idx = 1
  /\ stmtIdx = 1
  /\ migrationsApplied = <<>>
  /\ healthCheck = FALSE
  /\ migrationTableExists = FALSE
  /\ appliedMigrations = <<>>
  /\ runResult = NoRunResult
  /\ statusResult = DisconnectedReport
  /\ returned = "none"
  /\ begun = <<>>
  /\ committedInRun = {}
  /\ preSchema = {}
  /\ preLedger = {}
  /\ startLedger = {}
  /\ failedMig = 0
  /\ fault = FALSE
  /\ peer = NoPeer
  /\ cli = NoCli

\* No call of the differ on its own is in progress.
EmptySchema == [tables |-> <<>>, indexes |-> <<>>, refs |-> <<>>]
NoDiffer ==
  [phase |-> "idle", old |-> EmptySchema, new |-> EmptySchema, changes |-> <<>>,
   result |-> EmptySchema, failed |-> FALSE, sql |-> <<>>]

\* No call of FeatureRegistry.resolve is in progress.
NoResolver ==
  [phase |-> "idle", registry |-> <<>>, names |-> <<>>, next |-> 1, stack |-> <<>>,
   resolved |-> {}, features |-> <<>>]

Init == Constructed /\ differ = NoDiffer /\ resolver = NoResolver

\* The locals and the result of an earlier operation are dead once the next
\* operation starts: they are put back to their initial values.
forgetRunLocals ==
  /\ options' = NoOptions
  /\ currentMigration' = Undefined
  /\ pendingMigrations' = <<>>
  /\ idx' = 1
  /\ stmtIdx' = 1
  /\ migrationsApplied' = <<>>

forgetRun ==
  /\ forgetRunLocals
  /\ runResult' = NoRunResult
  /\ begun' = <<>>
  /\ committedInRun' = {}
  /\ preSchema' = {}
  /\ preLedger' = {}
  /\ failedMig' = 0

forgetStatus ==
  /\ healthCheck' = FALSE
  /\ migrationTableExists' = FALSE
  /\ appliedMigrations' = <<>>
  /\ statusResult' = DisconnectedReport

\* A developer (or generate()) puts a new numbered file into the directory
\* while no manager operation is in progress.
AddMigrationFile(n, content) ==
  /\ pc = "idle"
  /\ n \notin DOMAIN migrations
  /\ migrations' = [k \in DOMAIN migrations \cup {n} |->
                      IF k = n THEN content ELSE migrations[k]]
  /\ forgetRun
  /\ forgetStatus
  /\ returned' = "none"
  /\ fault' = FALSE
  /\ startLedger' = ledger
  /\ cli' = NoCli
  /\ UNCHANGED <<resolver, differ, peer, genState, dbVars, connVars, pc>>

\* The developer changes the text of a migration file that is recorded in
\* the ledger, while no manager operation is in progress.
EditMigrationFile(n, content) ==
  /\ pc = "idle"
  /\ n \in DOMAIN migrations
  /\ n \in Numbers(ledger)
  /\ content # migrations[n]
  /\ migrations' = [migrations EXCEPT ![n] = content]
  /\ forgetRun
  /\ forgetStatus
  /\ returned' = "none"
  /\ fault' = FALSE
  /\ startLedger' = ledger
  /\ cli' = NoCli
  /\ UNCHANGED <<resolver, differ, peer, genState, dbVars, connVars, pc>>

\* ------------------------------------------------------------------ run()
\* run(): migrationsApplied = [], then this.db.connect().
runStart(target, single, dryRun, ok) ==
  /\ pc = "idle"
  /\ options' = [target |-> target, single |-> single, dryRun |-> dryRun]
  /\ migrationsApplied' = <<>>
  /\ connect(ok)
  /\ pc' = IF connectRaises(ok) THEN "run_catch" ELSE "run_ensure"
  /\ currentMigration' = Undefined
  /\ pendingMigrations' = <<>>
  /\ idx' = 1
  /\ stmtIdx' = 1
  /\ runResult' = NoRunResult
  /\ forgetStatus
  /\ begun' = <<>>
  /\ committedInRun' = {}
  /\ preSchema' = {}
  /\ preLedger' = {}
  /\ failedMig' = 0
  /\ startLedger' = ledger
  /\ fault' = connectRaises(ok)
  /\ returned' = "none"
  /\ cli' = NoCli
  /\ UNCHANGED <<resolver, differ, peer, fileVars, dbVars>>

\* ensureMigrationTable(): CREATE TABLE IF NOT EXISTS through db.execute.
ensureMigrationTable(ok) ==
  /\ pc = "run_ensure"
  /\ IF roundTripOk(ok)
     THEN /\ ledgerTable' = TRUE
          /\ pc' = "run_current"
          /\ UNCHANGED fault
     ELSE /\ pc' = "run_catch"
          /\ fault' = TRUE
          /\ UNCHANGED ledgerTable
  /\ UNCHANGED <<resolver, cli, differ, peer, fileVars, ledger, schemaDb, txOpen, txEffects, txRows, connVars,
                 runLocals, statusLocals, runResult, statusResult, returned, histVars>>

\* const currentMigration = await this.getCurrentMigration();
runGetCurrent(ok) ==
  /\ pc = "run_current"
  /\ currentMigration' = getCurrentMigration(ok)
  /\ fault' = (fault \/ ~roundTripOk(ok))
  /\ pc' = "run_files"
  /\ UNCHANGED <<resolver, cli, differ, peer, fileVars, dbVars, connVars, options, pendingMigrations, idx, stmtIdx,
                 migrationsApplied, statusLocals, runResult, statusResult, returned,
                 histVars>>

\* pendingMigrations = migrationFiles.filter(m => m.number > (currentMigration || 0))
isPending(cur, m) == m.number > OrZero(cur)
filterPending(files, cur) ==
  LET keep(m) == isPending(cur, m) IN SelectSeq(files, keep)

\* The value run() returns on its success paths.
successResult(applied, cur) ==
  [success |-> TRUE,
   migrationsApplied |-> applied,
   currentMigration |-> IF Len(applied) > 0 THEN applied[Len(applied)] ELSE OrZero(cur)]

\* getMigrationFiles(), the pending filter, the "no pending" return and the
\* dryRun return.
runListFiles(ok, listing) ==
  /\ pc = "run_files"
  /\ IF ~ok
     THEN /\ pc' = "run_catch"
          /\ fault' = TRUE
          /\ UNCHANGED <<pendingMigrations, idx, runResult>>
     ELSE LET pending == filterPending(getMigrationFiles(listing), currentMigration)
          IN /\ pendingMigrations' = pending
             /\ idx' = 1
             /\ UNCHANGED fault
             /\ IF Len(pending) = 0 \/ options.dryRun
                THEN /\ runResult' = successResult(<<>>, currentMigration)
                     /\ pc' = "run_finally"
                ELSE /\ pc' = "run_loop"
                     /\ UNCHANGED runResult
  /\ UNCHANGED <<resolver, cli, differ, peer, fileVars, dbVars, connVars, options, currentMigration, stmtIdx,
                 migrationsApplied, statusLocals, statusResult, returned, histVars>>

\* The ledger row of the INSERT in run().
ledgerRow(m) == [number |-> m.number, filename |-> m.filename, checksum |-> m.checksum]

\* The loop head of run(): the two break tests, then db.transaction() up to
\* client.query('BEGIN').  Leaving the loop builds the success result.
runLoop(ok) ==
  /\ pc = "run_loop"
  /\ IF \/ idx > Len(pendingMigrations)
        \/ (options.single /\ Len(migrationsApplied) > 0)
        \/ (options.target # 0 /\ pendingMigrations[idx].number > options.target)
     THEN /\ runResult' = successResult(migrationsApplied, currentMigration)
          /\ pc' = "run_finally"
          /\ UNCHANGED <<txOpen, stmtIdx, begun, preSchema, preLedger, failedMig, fault>>
     ELSE LET m == pendingMigrations[idx]
          IN /\ begun' = Append(begun, m.number)
             /\ preSchema' = schemaDb
             /\ preLedger' = ledger
             /\ stmtIdx' = 1
             /\ UNCHANGED runResult
             /\ IF ~connected \/ ~client
                THEN \* raised before the try block of transaction(): no ROLLBACK
                     /\ pc' = "run_catch"
                     /\ failedMig' = m.number
                     /\ fault' = TRUE
                     /\ UNCHANGED txOpen
                ELSE IF ok
                THEN /\ txOpen' = TRUE
                     /\ pc' = IF Len(Statements(m.content)) = 0 THEN "tx_insert" ELSE "tx_exec"
                     /\ UNCHANGED <<failedMig, fault>>
                ELSE /\ pc' = "tx_rollback"
                     /\ failedMig' = m.number
                     /\ fault' = TRUE
                     /\ UNCHANGED txOpen
  /\ UNCHANGED <<resolver, cli, differ, peer, fileVars, ledgerTable, ledger, schemaDb, txEffects, txRows, connVars,
                 options, currentMigration, pendingMigrations, idx, migrationsApplied,
                 statusLocals, statusResult, returned, committedInRun, startLedger>>

\* tx.execute(statement) for the statement at stmtIdx.
txExecute(ok) ==
  /\ pc = "tx_exec"
  /\ LET m == pendingMigrations[idx]
         n == Len(Statements(m.content))
     IN IF ok
        THEN /\ txEffects' = txEffects \cup {<<m.number, stmtIdx>>}
             /\ stmtIdx' = stmtIdx + 1
             /\ pc' = IF stmtIdx = n THEN "tx_insert" ELSE "tx_exec"
             /\ UNCHANGED <<failedMig, fault>>
        ELSE /\ pc' = "tx_rollback"
             /\ failedMig' = m.number
             /\ fault' = TRUE
             /\ UNCHANGED <<txEffects, stmtIdx>>
  /\ UNCHANGED <<resolver, cli, differ, peer, fileVars, ledgerTable, ledger, schemaDb, txOpen, txRows, connVars,
                 options, currentMigration, pendingMigrations, idx, migrationsApplied,
                 statusLocals, runResult, statusResult, returned,
                 begun, committedInRun, preSchema, preLedger, startLedger>>

\* An INSERT that does not wait for the other transaction's row.
insertWaits_never(number, otherRows) == FALSE

\* An INSERT of a number that an open transaction of another session has
\* inserted waits on the primary key until that transaction ends.
insertWaits(number, otherRows) == number \in Numbers(otherRows)

\* An INSERT on a ledger table without its primary key.
insertAccepted_noPrimaryKey(m, ok) == ok /\ ledgerTable

\* INSERT INTO <ledger> (number, filename, checksum, applied_at): the server
\* rejects a number that the primary key already holds.
insertAccepted(m, ok) ==
  ok /\ ledgerTable /\ m.number \notin Numbers(ledger \cup txRows)

txInsert(ok) ==
  /\ pc = "tx_insert"
  /\ ~insertWaits(pendingMigrations[idx].number, peer.txRows)
  /\ LET m == pendingMigrations[idx]
     IN IF insertAccepted(m, ok)
        THEN /\ txRows' = txRows \cup {ledgerRow(m)}
             /\ pc' = "tx_commit"
             /\ UNCHANGED <<failedMig, fault>>
        ELSE /\ pc' = "tx_rollback"
             /\ failedMig' = m.number
             /\ fault' = (fault \/ ~ok)
             /\ UNCHANGED txRows
  /\ UNCHANGED <<resolver, cli, differ, peer, fileVars, ledgerTable, ledger, schemaDb, txOpen, txEffects, connVars,
                 runLocals, statusLocals, runResult, statusResult, returned,
                 begun, committedInRun, preSchema, preLedger, startLedger>>

\* COMMIT makes the working set of the transaction the committed state.
commitSchema == schemaDb \cup txEffects
commitLedger == ledger \cup txRows

\* client.query('COMMIT'), then migrationsApplied.push(...).  A COMMIT the
\* server refuses leaves the transaction to the catch block.
txCommit(ok) ==
  /\ pc = "tx_commit"
  /\ LET m == pendingMigrations[idx]
     IN IF ok
        THEN /\ schemaDb' = commitSchema
             /\ ledger' = commitLedger
             /\ txOpen' = FALSE
             /\ txEffects' = {}
             /\ txRows' = {}
             /\ migrationsApplied' = Append(migrationsApplied, m.number)
             /\ committedInRun' = committedInRun \cup {m.number}
             /\ idx' = idx + 1
             /\ pc' = "run_loop"
             /\ UNCHANGED <<failedMig, fault>>
        ELSE /\ pc' = "tx_rollback"
             /\ failedMig' = m.number
             /\ fault' = TRUE
             /\ UNCHANGED <<schemaDb, ledger, txOpen, txEffects, txRows,
                            migrationsApplied, committedInRun, idx>>
  /\ UNCHANGED <<resolver, cli, differ, peer, fileVars, ledgerTable, connVars, options, currentMigration,
                 pendingMigrations, stmtIdx, statusLocals, runResult, statusResult,
                 returned, begun, preSchema, preLedger, startLedger>>

\* Statements run outside the transaction stay when it is rolled back.
rollbackSchema_keepsEffects == schemaDb \cup txEffects
rollbackLedger_keepsRows == ledger \cup txRows

\* ROLLBACK discards the working set of the transaction.
rollbackSchema == schemaDb
rollbackLedger == ledger

\* The catch block of transaction(): client.query('ROLLBACK'), whose own
\* failure is only logged (the server aborts a transaction whose connection
\* is lost), then the error is raised again to run().
txRollback(ok) ==
  /\ pc = "tx_rollback"
  /\ schemaDb' = rollbackSchema
  /\ ledger' = rollbackLedger
  /\ txOpen' = FALSE
  /\ txEffects' = {}
  /\ txRows' = {}
  /\ fault' = (fault \/ ~ok)
  /\ pc' = "run_catch"
  /\ UNCHANGED <<resolver, cli, differ, peer, fileVars, ledgerTable, connVars, runLocals, statusLocals, runResult,
                 statusResult, returned, histVars>>

\* The value run() returns from its catch block.
failureResult(applied, cur) ==
  [success |-> FALSE, migrationsApplied |-> applied, currentMigration |-> OrZero(cur)]

\* catch (error) of run(): getCurrentMigration() again, then the failed result.
runCatch(ok) ==
  /\ pc = "run_catch"
  /\ runResult' = failureResult(migrationsApplied, getCurrentMigration(ok))
  /\ pc' = "run_finally"
  /\ UNCHANGED <<resolver, cli, differ, peer, fileVars, dbVars, connVars, runLocals, statusLocals, statusResult,
                 returned, histVars, fault>>

\* finally of run(): this.db.disconnect(), and run() returns.
runFinally(endOk) ==
  /\ pc = "run_finally"
  /\ disconnect(endOk)
  /\ pc' = "idle"
  /\ returned' = "run"
  /\ UNCHANGED <<resolver, cli, differ, peer, fileVars, dbVars, runLocals, statusLocals, runResult, statusResult,
                 histVars, fault>>

\* ------------------------------------------------------------ the command
\* RunCommand.execute after `const result = await zynx.run({target, single,
\* force})`: the result's success is not read.  With an empty applied list it
\* prints "No migrations were applied", otherwise "Successfully applied N
\* migrations"; it returns, and the process ends with exit code 0.  run()
\* returns a result on every path, so the catch block of the command and
\* Deno.exit(1) are not reached from it.
commandReport(result) ==
  [done |-> TRUE,
   exit |-> 0,
   printed |-> IF Len(result.migrationsApplied) = 0 THEN "No migrations were applied"
               ELSE "Successfully applied"]

runCommandReports ==
  /\ pc = "idle"
  /\ returned = "run"
  /\ ~options.dryRun
  /\ ~cli.done
  /\ cli' = commandReport(runResult)
  /\ UNCHANGED <<resolver, differ, peer, fileVars, dbVars, connVars, pc, runLocals, statusLocals,
                 runResult, statusResult, returned, histVars, fault>>

\* ------------------------------------------------------------ getStatus()
\* getStatus(): this.db.connect().  A raise goes to the catch block, which
\* returns the disconnected report.
statusStart(ok) ==
  /\ pc = "idle"
  /\ connect(ok)
  /\ IF connectRaises(ok)
     THEN /\ statusResult' = DisconnectedReport
          /\ pc' = "st_finally"
     ELSE /\ statusResult' = DisconnectedReport
          /\ pc' = "st_health"
  /\ healthCheck' = FALSE
  /\ migrationTableExists' = FALSE
  /\ appliedMigrations' = <<>>
  /\ forgetRun
  /\ fault' = connectRaises(ok)
  /\ startLedger' = ledger
  /\ returned' = "none"
  /\ cli' = NoCli
  /\ UNCHANGED <<resolver, differ, peer, fileVars, dbVars>>

\* DatabaseUtils.healthCheck(): SELECT 1; a failure is caught and reported
\* as healthy: false.
statusHealthCheck(ok) ==
  /\ pc = "st_health"
  /\ healthCheck' = roundTripOk(ok)
  /\ fault' = (fault \/ ~roundTripOk(ok))
  /\ pc' = "st_table"
  /\ UNCHANGED <<resolver, cli, differ, peer, fileVars, dbVars, connVars, runLocals, migrationTableExists,
                 appliedMigrations, runResult, statusResult, returned, histVars>>

\* this.dbUtils.tableExists(tableName): raises when the query fails.
statusTableExists(ok) ==
  /\ pc = "st_table"
  /\ IF roundTripOk(ok)
     THEN /\ migrationTableExists' = tableExists(ledgerTable)
          /\ pc' = "st_ledger"
          /\ UNCHANGED <<statusResult, fault>>
     ELSE /\ statusResult' = DisconnectedReport
          /\ fault' = TRUE
          /\ pc' = "st_finally"
          /\ UNCHANGED migrationTableExists
  /\ UNCHANGED <<resolver, cli, differ, peer, fileVars, dbVars, connVars, runLocals, healthCheck, appliedMigrations,
                 runResult, returned, histVars>>

\* currentMigration and appliedMigrations: read from the ledger only when
\* migrationTableExists; both reads catch their own errors.
statusReadLedger(okCurrent, okApplied) ==
  /\ pc = "st_ledger"
  /\ currentMigration' =
       IF migrationTableExists THEN getCurrentMigration(okCurrent) ELSE Undefined
  /\ appliedMigrations' =
       IF migrationTableExists THEN getAppliedMigrations(okApplied) ELSE <<>>
  /\ fault' = (fault \/ (migrationTableExists
                          /\ (~roundTripOk(okCurrent) \/ ~roundTripOk(okApplied))))
  /\ pc' = "st_files"
  /\ UNCHANGED <<resolver, cli, differ, peer, fileVars, dbVars, connVars, options, pendingMigrations, idx, stmtIdx,
                 migrationsApplied, healthCheck, migrationTableExists, runResult,
                 statusResult, returned, histVars>>

\* fileSystemMigrations.filter(m => !appliedMigrations.some(am => am.number === m.number))
notApplied(applied, m) == ~\E i \in 1..Len(applied) : applied[i] = m.number
filterNotApplied(files, applied) ==
  LET keep(m) == notApplied(applied, m) IN SelectSeq(files, keep)

numbersOf(files) == [i \in 1..Len(files) |-> files[i].number]

\* Math.max(...fileSystemMigrations.map(m => m.number)), 0 for no files
latestVersion(files) ==
  IF Len(files) = 0 THEN 0
  ELSE CHOOSE n \in { files[i].number : i \in 1..Len(files) } :
         \A i \in 1..Len(files) : files[i].number <= n

\* The report with `connected` set regardless of the health check.
statusReport_alwaysConnected(healthy, tableThere, cur, applied, files) ==
  [connected |-> TRUE,
   migrationsTableExists |-> tableThere,
   currentVersion |-> OrZero(cur),
   latestVersion |-> latestVersion(files),
   currentMigration |-> cur,
   appliedMigrations |-> applied,
   pendingMigrations |-> numbersOf(filterNotApplied(files, applied)),
   fileSystemMigrations |-> numbersOf(files)]

\* The report getStatus() returns from its try block.
statusReport(healthy, tableThere, cur, applied, files) ==
  [connected |-> healthy,
   migrationsTableExists |-> tableThere,
   currentVersion |-> OrZero(cur),
   latestVersion |-> latestVersion(files),
   currentMigration |-> cur,
   appliedMigrations |-> applied,
   pendingMigrations |-> numbersOf(filterNotApplied(files, applied)),
   fileSystemMigrations |-> numbersOf(files)]

\* getMigrationFiles(), the pending set and the report.
statusListFiles(ok, listing) ==
  /\ pc = "st_files"
  /\ IF ok
     THEN /\ statusResult' = statusReport(healthCheck, migrationTableExists,
                                          currentMigration, appliedMigrations,
                                          getMigrationFiles(listing))
          /\ UNCHANGED fault
     ELSE /\ statusResult' = DisconnectedReport
          /\ fault' = TRUE
  /\ pc' = "st_finally"
  /\ UNCHANGED <<resolver, cli, differ, peer, fileVars, dbVars, connVars, runLocals, statusLocals, runResult,
                 returned, histVars>>

\* finally of getStatus(): this.db.disconnect(), and getStatus() returns.
statusFinally(endOk) ==
  /\ pc = "st_finally"
  /\ disconnect(endOk)
  /\ pc' = "idle"
  /\ returned' = "status"
  /\ UNCHANGED <<resolver, cli, differ, peer, fileVars, dbVars, runLocals, statusLocals, runResult, statusResult,
                 histVars, fault>>

\* ------------------------------------------- run() of a second process
\* The same run() on its own connection, with default options and a healthy
\* server: one action per round trip to the database.
peerOnly == <<resolver, cli, differ, fileVars, connVars, pc, runLocals, statusLocals, runResult, statusResult,
              returned, histVars, fault, txOpen, txEffects, txRows>>

\* connect() and ensureMigrationTable(): CREATE TABLE IF NOT EXISTS.
peerStart ==
  /\ peer.pc = "idle"
  /\ peer' = [NoPeer EXCEPT !.pc = "current"]
  /\ ledgerTable' = TRUE
  /\ UNCHANGED <<peerOnly, ledger, schemaDb>>

\* getCurrentMigration(), getMigrationFiles() and the pending filter.
peerGetCurrent(listing) ==
  /\ peer.pc = "current"
  /\ LET result == queryMaxNumber(ledger)
         cur == OrUndefined(IF Len(result) >= 1 THEN Prop0(result[1]) ELSE Undefined)
     IN peer' = [peer EXCEPT !.pendingMigrations = filterPending(getMigrationFiles(listing), cur),
                             !.pc = "loop"]
  /\ UNCHANGED <<peerOnly, ledgerTable, ledger, schemaDb>>

\* The loop head: past the last pending migration run() returns, else BEGIN.
peerLoop ==
  /\ peer.pc = "loop"
  /\ IF peer.idx > Len(peer.pendingMigrations)
     THEN peer' = [peer EXCEPT !.pc = "idle"]
     ELSE peer' = [peer EXCEPT !.pc = "exec", !.stmtIdx = 1,
                               !.begun = @ \cup {peer.pendingMigrations[peer.idx].number}]
  /\ UNCHANGED <<peerOnly, ledgerTable, ledger, schemaDb>>

\* tx.execute(statement)
peerExecute ==
  /\ peer.pc = "exec"
  /\ LET m == peer.pendingMigrations[peer.idx]
     IN peer' = [peer EXCEPT !.txEffects = @ \cup {<<m.number, peer.stmtIdx>>},
                             !.stmtIdx = @ + 1,
                             !.pc = IF peer.stmtIdx = Len(Statements(m.content))
                                    THEN "insert" ELSE "exec"]
  /\ UNCHANGED <<peerOnly, ledgerTable, ledger, schemaDb>>

\* The ledger INSERT: waits for an open transaction that inserted the same
\* number, then is accepted or rejected by the primary key.
peerInsert ==
  /\ peer.pc = "insert"
  /\ LET m == peer.pendingMigrations[peer.idx]
     IN /\ ~insertWaits(m.number, txRows)
        /\ IF insertAccepted(m, TRUE)
           THEN peer' = [peer EXCEPT !.txRows = @ \cup {ledgerRow(m)}, !.pc = "commit"]
           ELSE peer' = [peer EXCEPT !.failedMig = m.number, !.pc = "rollback"]
  /\ UNCHANGED <<peerOnly, ledgerTable, ledger, schemaDb>>

\* COMMIT, then the next pending migration.
peerCommit ==
  /\ peer.pc = "commit"
  /\ schemaDb' = schemaDb \cup peer.txEffects
  /\ ledger' = ledger \cup peer.txRows
  /\ peer' = [peer EXCEPT !.txEffects = {}, !.txRows = {},
                          !.committed = @ \cup {peer.pendingMigrations[peer.idx].number},
                          !.idx = @ + 1, !.pc = "loop"]
  /\ UNCHANGED <<peerOnly, ledgerTable>>

\* ROLLBACK; the error ends run() through its catch and finally blocks.
peerRollback ==
  /\ peer.pc = "rollback"
  /\ peer' = [peer EXCEPT !.txEffects = {}, !.txRows = {}, !.pc = "idle"]
  /\ UNCHANGED <<peerOnly, ledgerTable, ledger, schemaDb>>

\* ------------------------------------------------------------- rollback()
\* rollback(options): warns and returns the "not yet implemented" result; it
\* opens no connection, reads no file and does not look at options.target.
rollback(target) ==
  /\ pc = "idle"
  /\ options' = [target |-> target, single |-> FALSE, dryRun |-> FALSE]
  /\ currentMigration' = Undefined
  /\ pendingMigrations' = <<>>
  /\ idx' = 1
  /\ stmtIdx' = 1
  /\ migrationsApplied' = <<>>
  /\ runResult' = NoRunResult
  /\ begun' = <<>>
  /\ committedInRun' = {}
  /\ preSchema' = {}
  /\ preLedger' = {}
  /\ failedMig' = 0
  /\ forgetStatus
  /\ returned' = "rollback"
  /\ fault' = FALSE
  /\ startLedger' = ledger
  /\ cli' = NoCli
  /\ UNCHANGED <<resolver, differ, peer, fileVars, dbVars, connVars, pc>>

\* -------------------------------------------------------------- generate()
\* FileManager.getNextMigrationNumber(): 1 for no numbered ".sql" file, else
\* the largest number plus one.
getNextMigrationNumber ==
  LET numbers == { extractMigrationNumber(f) : f \in sqlNames } \ {0}
  IN IF numbers = {} THEN 1
     ELSE (CHOOSE n \in numbers : \A k \in numbers : k <= n) + 1

\* The count of decimal digits of `${n}`.
digits(n) == IF n < 10 THEN 1 ELSE IF n < 100 THEN 2 ELSE IF n < 1000 THEN 3 ELSE 4

\* `${n}.sql`
plainFileName(n) == <<digits(n), n>>

\* migrationNumber.toString().padStart(4, '0') + ".sql"
paddedFileName(n) == <<IF digits(n) < 4 THEN 4 ELSE digits(n), n>>

writeMigration(n, content) ==
  [k \in DOMAIN migrations \cup {n} |-> IF k = n THEN content ELSE migrations[k]]

\* snapshot.dbml left as it was.
snapshotDbmlWritten_stale(dbmlContent) == snapshotDbml

\* The content updateSnapshots() and generateInitialSnapshot() write to
\* snapshot.dbml.
snapshotDbmlWritten(dbmlContent) == File(dbmlContent)

\* Points at which a generate() call may raise: not at all, at write k of
\* its three file writes, or while reading the schema file.
NoFailure == 0
ReadFailure == 4
FailPoints == {NoFailure, 1, 2, 3, ReadFailure}

\* The writes made although options.dryRun is set.
plannedWrites_ignoresDryRun(dryRun, names) == names

\* The file writes a generate() call goes on to make: none when
\* options.dryRun returns the result before the first writeFile.
plannedWrites(dryRun, names) == IF dryRun THEN <<>> ELSE names

\* The writes of a generate() call in program order, cut before the write
\* that raises.
writesUntil(failAt, names) ==
  IF failAt = NoFailure \/ failAt = ReadFailure THEN names
  ELSE SubSeq(names, 1, failAt - 1)

generateEnds(failAt, opts, result, done, number) ==
  /\ genOutcome' = IF failAt = NoFailure THEN "returned" ELSE "raised"
  /\ genResult' = IF failAt = NoFailure THEN result ELSE NoGenResult
  /\ genOpts' = opts
  /\ genWrote' = SeqSet(done)
  /\ prevGen' = [valid |-> genOutcome # "none", outcome |-> genOutcome,
                 opts |-> genOpts, wrote |-> genWrote]
  /\ genCall' = [before |-> [migrations |-> migrations, snapshotSql |-> snapshotSql,
                             snapshotDbml |-> snapshotDbml],
                 number |-> IF Len(done) >= 1 THEN number ELSE 0,
                 interruption |-> IF failAt \in 1..3 THEN "raised" ELSE genCall.interruption,
                 forced |-> (genCall.forced \/ opts.force)]

\* generate(options) as one step of the manager: reads, diff and the file
\* writes up to the one that raises.
generate(force, dryRun, failAt) ==
  /\ pc = "idle"
  /\ LET opts == [force |-> force, dryRun |-> dryRun]
         currentDbml == schemaFile
         currentSchema == parse(currentDbml)
         snapshotExists == snapshotSql.exists
     IN IF failAt = ReadFailure
        THEN \* readSchemaFile() or parse() raises
             /\ generateEnds(failAt, opts, NoGenResult, <<>>, 0)
             /\ UNCHANGED <<migrations, snapshotSql, snapshotDbml>>
        ELSE IF ~snapshotExists /\ ~force
        THEN \* generateInitialSnapshot
             LET sql == generateCreateSchema(currentSchema)
                 result == [filename |-> FileName(1), sql |-> sql, changes |-> <<>>]
                 planned == plannedWrites(dryRun, <<"migration", "snapshot.sql", "snapshot.dbml">>)
                 done == writesUntil(failAt, planned)
             IN /\ failAt <= Len(planned)
                /\ migrations' = IF Len(done) >= 1 THEN writeMigration(1, sql)
                                 ELSE migrations
                /\ snapshotSql' = IF Len(done) >= 2 THEN File(sql) ELSE snapshotSql
                /\ snapshotDbml' = IF Len(done) >= 3 THEN snapshotDbmlWritten(currentDbml)
                                   ELSE snapshotDbml
                /\ generateEnds(failAt, opts, result, done, 1)
        ELSE LET snapshotSource == IF snapshotDbml.exists THEN snapshotDbml.content
                                   ELSE currentDbml
                 changes == compare(parse(snapshotSource), currentSchema)
             IN IF Len(changes) = 0 /\ ~force
                THEN /\ failAt = NoFailure
                     /\ generateEnds(failAt, opts, NoGenResult, <<>>, 0)
                     /\ UNCHANGED <<migrations, snapshotSql, snapshotDbml>>
                ELSE LET migrationSql == generateMigrationSQL(changes)
                         number == getNextMigrationNumber
                         planned == plannedWrites(dryRun, <<"migration", "snapshot.dbml", "snapshot.sql">>)
                         done == writesUntil(failAt, planned)
                         filename == IF dryRun THEN plainFileName(number)
                                     ELSE paddedFileName(number)
                     IN /\ failAt <= Len(planned)
                        /\ Len(done) >= 1 => number <= MaxFile
                        /\ migrations' = IF Len(done) >= 1
                                         THEN writeMigration(number, migrationSql)
                                         ELSE migrations
                        /\ snapshotDbml' = IF Len(done) >= 2
                                           THEN snapshotDbmlWritten(currentDbml)
                                           ELSE snapshotDbml
                        /\ snapshotSql' = IF Len(done) >= 3
                                          THEN File(generateCreateSchema(currentSchema))
                                          ELSE snapshotSql
                        /\ generateEnds(failAt, opts,
                                        [filename |-> filename, sql |-> migrationSql,
                                         changes |-> changes],
                                        done, number)
  /\ forgetRun
  /\ forgetStatus
  /\ returned' = "none"
  /\ fault' = FALSE
  /\ startLedger' = ledger
  /\ UNCHANGED <<resolver, cli, differ, peer, schemaFile, dbVars, connVars, pc>>

\* The developer replaces the text of the schema file.
EditSchema(src) ==
  /\ pc = "idle"
  /\ src # schemaFile
  /\ schemaFile' = src
  /\ genOutcome' = "none"
  /\ genResult' = NoGenResult
  /\ genOpts' = NoGenOpts
  /\ genWrote' = {}
  /\ prevGen' = NoPrevGen
  /\ genCall' = [NoGenCall EXCEPT
                    !.interruption = IF genCall.interruption = "none" THEN "none" ELSE "edited",
                    !.forced = genCall.forced]
  /\ UNCHANGED <<resolver, cli, differ, peer, migrations, snapshotSql, snapshotDbml, dbVars, connVars, pc, runLocals,
                 statusLocals, runResult, statusResult, returned, histVars, fault>>

\* ----------------------------------------------------------- specification
Targets == 0..MaxFile

Next ==
  \/ \E n \in 1..MaxFile, c \in Contents : AddMigrationFile(n, c)
  \/ \E n \in 1..MaxFile, c \in Contents : EditMigrationFile(n, c)
  \/ \E t \in Targets, sg \in BOOLEAN, dr \in BOOLEAN, ok \in BOOLEAN : runStart(t, sg, dr, ok)
  \/ \E t \in Targets : rollback(t)
  \/ \E ok \in BOOLEAN : ensureMigrationTable(ok)
  \/ \E ok \in BOOLEAN : runGetCurrent(ok)
  \/ \E ok \in BOOLEAN, l \in Listings(sqlNames) : runListFiles(ok, l)
  \/ \E ok \in BOOLEAN : runLoop(ok)
  \/ \E ok \in BOOLEAN : txExecute(ok)
  \/ \E ok \in BOOLEAN : txInsert(ok)
  \/ \E ok \in BOOLEAN : txCommit(ok)
  \/ \E ok \in BOOLEAN : txRollback(ok)
  \/ \E ok \in BOOLEAN : runCatch(ok)
  \/ \E ok \in BOOLEAN : runFinally(ok)
  \/ runCommandReports
  \/ \E ok \in BOOLEAN : statusStart(ok)
  \/ \E ok \in BOOLEAN : statusHealthCheck(ok)
  \/ \E ok \in BOOLEAN : statusTableExists(ok)
  \/ \E o1 \in BOOLEAN, o2 \in BOOLEAN : statusReadLedger(o1, o2)
  \/ \E ok \in BOOLEAN, l \in Listings(sqlNames) : statusListFiles(ok, l)
  \/ \E ok \in BOOLEAN : statusFinally(ok)

Spec == Init /\ [][Next]_vars

\* Two processes run() against one database and one directory; the external
\* calls of the first do not fail on their own.
NextTwo ==
  \/ \E n \in 1..MaxFile, c \in Contents : AddMigrationFile(n, c)
  \/ runStart(0, FALSE, FALSE, TRUE)
  \/ ensureMigrationTable(TRUE)
  \/ runGetCurrent(TRUE)
  \/ \E l \in Listings(sqlNames) : runListFiles(TRUE, l)
  \/ runLoop(TRUE)
  \/ txExecute(TRUE)
  \/ txInsert(TRUE)
  \/ txCommit(TRUE)
  \/ txRollback(TRUE)
  \/ runCatch(TRUE)
  \/ runFinally(TRUE)
  \/ peerStart
  \/ \E l \in Listings(sqlNames) : peerGetCurrent(l)
  \/ peerLoop
  \/ peerExecute
  \/ peerInsert
  \/ peerCommit
  \/ peerRollback

SpecTwo == Init /\ [][NextTwo]_vars

\* ------------------------------------------------------ SchemaDiffer alone
\* compare(oldSchema, newSchema) on two parsed schema files.
diffCompare ==
  /\ differ.phase = "input"
  /\ differ' = [differ EXCEPT !.phase = "compared",
                              !.changes = compare(differ.old, differ.new)]
  /\ UNCHANGED <<resolver, cli, peer, fileVars, dbVars, connVars, pc, runLocals, statusLocals, runResult,
                 statusResult, returned, histVars, fault>>

\* ---------------------------------------- the rendered SQL, as executed
\* The database is described in the vocabulary of the schema: its tables with
\* their columns, its indexes, its foreign keys.  A statement is read back
\* from the words the differ rendered.

\* The column definitions of CREATE TABLE and ADD COLUMN:
\* name type [PRIMARY KEY] [UNIQUE] [NOT NULL] [DEFAULT value]
RECURSIVE columnsOf(_)
columnsOf(w) ==
  IF Len(w) < 2 THEN <<>>
  ELSE LET r1 == SubSeq(w, 3, Len(w))
           pk == Len(r1) >= 1 /\ r1[1] = "PRIMARY KEY"
           r2 == IF pk THEN Tail(r1) ELSE r1
           uq == Len(r2) >= 1 /\ r2[1] = "UNIQUE"
           r3 == IF uq THEN Tail(r2) ELSE r2
           nn == Len(r3) >= 1 /\ r3[1] = "NOT NULL"
           r4 == IF nn THEN Tail(r3) ELSE r3
           df == Len(r4) >= 2 /\ r4[1] = "DEFAULT"
           r5 == IF df THEN SubSeq(r4, 3, Len(r4)) ELSE r4
       IN << [name |-> w[1], type |-> w[2], pk |-> pk, unique |-> uq, not_null |-> nn,
              default |-> IF df THEN r4[2] ELSE UndefStr] >> \o columnsOf(r5)

hasTable(db, t) == \E i \in 1..Len(db.tables) : db.tables[i].name = t

\* The position of the first occurrence of a word.
wordAt(w, word) == CHOOSE i \in 1..Len(w) : w[i] = word /\ \A j \in 1..(i - 1) : w[j] # word

withFields(db, t, fields) ==
  [db EXCEPT !.tables =
     [i \in 1..Len(db.tables) |->
        IF db.tables[i].name = t THEN [db.tables[i] EXCEPT !.fields = fields]
        ELSE db.tables[i]]]

fieldsOfTable(db, t) == (CHOOSE tb \in SeqSet(db.tables) : tb.name = t).fields

\* ALTER TABLE t ALTER COLUMN c ... and the unique constraint of c.
setColumn(db, t, c, attr, value) ==
  LET fields == fieldsOfTable(db, t)
  IN withFields(db, t, [k \in 1..Len(fields) |->
                          IF fields[k].name = c THEN [fields[k] EXCEPT ![attr] = value]
                          ELSE fields[k]])

alterTable(db, sql) ==
  LET t == sql[2]
      fields == fieldsOfTable(db, t)
  IN CASE sql[3] = "ADD COLUMN" ->
            withFields(db, t, fields \o columnsOf(SubSeq(sql, 4, Len(sql))))
       [] sql[3] = "DROP COLUMN IF EXISTS" ->
            LET keep(f) == f.name # sql[4] IN withFields(db, t, SelectSeq(fields, keep))
       [] sql[3] = "ALTER COLUMN" /\ sql[5] = "TYPE" -> setColumn(db, t, sql[4], "type", sql[6])
       [] sql[3] = "ALTER COLUMN" /\ sql[5] = "SET NOT NULL" ->
            setColumn(db, t, sql[4], "not_null", TRUE)
       [] sql[3] = "ALTER COLUMN" /\ sql[5] = "DROP NOT NULL" ->
            setColumn(db, t, sql[4], "not_null", FALSE)
       [] sql[3] = "ALTER COLUMN" /\ sql[5] = "SET DEFAULT" ->
            setColumn(db, t, sql[4], "default", sql[6])
       [] sql[3] = "ALTER COLUMN" /\ sql[5] = "DROP DEFAULT" ->
            setColumn(db, t, sql[4], "default", UndefStr)
       [] sql[3] = "ADD CONSTRAINT" -> setColumn(db, t, sql[Len(sql)], "unique", TRUE)
       [] sql[3] = "DROP CONSTRAINT IF EXISTS" -> setColumn(db, t, sql[Len(sql)], "unique", FALSE)

\* CREATE [UNIQUE] INDEX name ON table [USING type] (columns); a name of the
\* form idx_<table>_<columns> is the one rendered for an index without name.
createIndex(db, sql) ==
  LET unique == sql[2] = "UNIQUE"
      on == wordAt(sql, "ON")
      nameWords == SubSeq(sql, IF unique THEN 4 ELSE 3, on - 1)
      t == sql[on + 1]
      typed == Len(sql) >= on + 2 /\ sql[on + 2] = "USING"
      columns == SubSeq(sql, IF typed THEN on + 4 ELSE on + 2, Len(sql))
  IN [db EXCEPT !.indexes =
        Append(@, [name |-> IF nameWords = <<"idx", t>> \o columns THEN "" ELSE nameWords[1],
                   tableName |-> t, columns |-> columns,
                   type |-> IF typed THEN sql[on + 3] ELSE "",
                   unique |-> unique, pk |-> FALSE])]

\* ALTER TABLE t ADD CONSTRAINT name FOREIGN KEY (c) REFERENCES t2(c2) ...
addForeignKey(db, sql) ==
  LET fk == wordAt(sql, "FOREIGN KEY")
      nameWords == SubSeq(sql, 4, fk - 1)
      rest == SubSeq(sql, fk + 5, Len(sql))
      onDelete == IF Len(rest) >= 2 /\ rest[1] = "ON DELETE" THEN rest[2] ELSE UndefStr
      rest2 == IF onDelete # UndefStr THEN SubSeq(rest, 3, Len(rest)) ELSE rest
      onUpdate == IF Len(rest2) >= 2 /\ rest2[1] = "ON UPDATE" THEN rest2[2] ELSE UndefStr
  IN [db EXCEPT !.refs =
        Append(@, [name |-> IF nameWords = <<"fk", sql[2], sql[fk + 1]>> THEN ""
                            ELSE nameWords[1],
                   from |-> [table |-> sql[2], column |-> sql[fk + 1]],
                   to |-> [table |-> sql[fk + 3], column |-> sql[fk + 4]],
                   type |-> "one-to-many", onDelete |-> onDelete, onUpdate |-> onUpdate])]

\* A statement the server refuses: it names a table that does not exist, or
\* drops a table that a foreign key of another table references.
refused(db, ch) ==
  CASE ch.type \in {"alter_table", "create_index", "add_foreign_key", "drop_foreign_key"} ->
         ~hasTable(db, ch.table)
    [] ch.type = "drop_table" ->
         \E i \in 1..Len(db.refs) :
            db.refs[i].to.table = ch.table /\ db.refs[i].from.table # ch.table
    [] ch.type = "create_table" -> hasTable(db, ch.table)
    [] OTHER -> FALSE

\* One statement of the migration on the database.
applyChange(db, ch) ==
  CASE ch.type = "create_table" ->
         [db EXCEPT !.tables = Append(@, [name |-> ch.sql[2],
                                          fields |-> columnsOf(SubSeq(ch.sql, 3, Len(ch.sql))),
                                          indexes |-> <<>>])]
    [] ch.type = "drop_table" ->
         LET keepT(tb) == tb.name # ch.sql[2]
             keepI(ix) == ix.tableName # ch.sql[2]
             keepR(r) == r.from.table # ch.sql[2]
         IN [tables |-> SelectSeq(db.tables, keepT), indexes |-> SelectSeq(db.indexes, keepI),
             refs |-> SelectSeq(db.refs, keepR)]
    [] ch.type = "alter_table" -> alterTable(db, ch.sql)
    [] ch.type = "create_index" -> createIndex(db, ch.sql)
    [] ch.type = "drop_index" ->
         LET keepI(ix) == indexName(ix) # SubSeq(ch.sql, 2, Len(ch.sql))
         IN [db EXCEPT !.indexes = SelectSeq(@, keepI)]
    [] ch.type = "add_foreign_key" -> addForeignKey(db, ch.sql)
    [] ch.type = "drop_foreign_key" ->
         LET keepR(r) == ~(r.from.table = ch.sql[2] /\ refName(r) = SubSeq(ch.sql, 4, Len(ch.sql)))
         IN [db EXCEPT !.refs = SelectSeq(@, keepR)]

\* The statements in the order given, in one transaction: the first refused
\* statement leaves the database as it was.
RECURSIVE applyFrom(_, _, _)
applyFrom(db, changes, i) ==
  IF i > Len(changes) THEN [schema |-> db, failed |-> FALSE]
  ELSE IF refused(db, changes[i]) THEN [schema |-> db, failed |-> TRUE]
  ELSE applyFrom(applyChange(db, changes[i]), changes, i + 1)

applyChanges(db, changes) ==
  LET r == applyFrom(db, changes, 1)
  IN IF r.failed THEN [schema |-> db, failed |-> TRUE] ELSE r

\* The migration rendered from the change list is run on a database whose
\* schema is oldSchema.
diffApply ==
  /\ differ.phase = "compared"
  /\ LET r == applyChanges(differ.old, differ.changes)
     IN differ' = [differ EXCEPT !.phase = "applied", !.result = r.schema,
                                 !.failed = r.failed]
  /\ UNCHANGED <<resolver, cli, peer, fileVars, dbVars, connVars, pc, runLocals, statusLocals, runResult,
                 statusResult, returned, histVars, fault>>

Schemas == { parse(src) : src \in DiffSources }

\* ------------------------------------------------- BaseGenerator alone
\* References whose source or target is not in any schema of the model: a
\* table that is never defined, a column that no table has.
StrayRefs ==
  { AstRef("", "posts", "user_id", "users", "id", ">", "no action", ""),
    AstRef("", "comments", "user_id", "users", "id", ">", "no action", ""),
    AstRef("", "posts", "author", "users", "id", ">", "no action", ""),
    AstRef("", "posts", "user_id", "accounts", "id", ">", "no action", ""),
    AstRef("", "posts", "user_id", "users", "uuid", ">", "no action", "") }

\* The schemas given to the generator: those of the differ, and each of them
\* with one more reference.
RenderSchemas ==
  Schemas \cup { parse([src EXCEPT !.refs = Append(@, r)]) : src \in DiffSources, r \in StrayRefs }

\* BaseGenerator.validateForeignKeys raises for this reference: its source or
\* target table is not in the schema, or the table has no such column.
dangling(schema, ref) ==
  LET has(t, c) == \E tb \in SeqSet(schema.tables) :
                     tb.name = t /\ \E f \in SeqSet(tb.fields) : f.name = c
  IN ~has(ref.from.table, ref.from.column) \/ ~has(ref.to.table, ref.to.column)

\* generateCompleteSchema(schema): header, tables, indexes and foreign keys
\* are rendered and joined; validateSchema is not called on the way.
renderComplete ==
  /\ differ.phase = "to render"
  /\ differ' = [differ EXCEPT !.phase = "rendered", !.failed = FALSE,
                              !.sql = generateCreateSchema(differ.new)]
  /\ UNCHANGED <<resolver, cli, peer, fileVars, dbVars, connVars, pc, runLocals, statusLocals, runResult,
                 statusResult, returned, histVars, fault>>

InitRender ==
  /\ Constructed
  /\ resolver = NoResolver
  /\ \E s \in RenderSchemas : differ = [NoDiffer EXCEPT !.phase = "to render", !.new = s]

NextRender ==
  \/ renderComplete

SpecRender == InitRender /\ [][NextRender]_vars

\* ------------------------------------------------- FeatureRegistry alone
\* The registry maps a feature name to the feature's `dependencies`.  Every
\* dependency named is registered; a feature may depend on itself or on a
\* feature that depends on it.
FeatureNames == {"uuid", "postgis", "timescale"}

DependencyLists ==
  {<<>>} \cup { <<d>> : d \in FeatureNames }
         \cup { <<d, e>> : d \in FeatureNames, e \in FeatureNames }

Registries == [FeatureNames -> DependencyLists]

Requests == { <<"uuid">>, <<"postgis", "uuid">> }

\* The depth of nested calls after which the engine raises RangeError
\* (maximum call stack size exceeded).
StackDepth == 4

\* visit(name) is called: it returns at once for a resolved name, raises for
\* an unknown one, and otherwise starts on the feature's dependencies.
visitCalled(r, name) ==
  IF name \in r.resolved THEN r
  ELSE IF name \notin DOMAIN r.registry THEN [r EXCEPT !.phase = "raised"]
  ELSE IF Len(r.stack) >= StackDepth THEN [r EXCEPT !.phase = "raised"]
  ELSE [r EXCEPT !.stack = Append(@, [name |-> name, dep |-> 1])]

resolverFrame ==
  UNCHANGED <<cli, differ, peer, fileVars, dbVars, connVars, pc, runLocals, statusLocals,
              runResult, statusResult, returned, histVars, fault>>

\* for (const name of names) visit(name)
resolveNext ==
  /\ resolver.phase = "visiting"
  /\ resolver.stack = <<>>
  /\ resolver.next <= Len(resolver.names)
  /\ resolver' = visitCalled([resolver EXCEPT !.next = @ + 1], resolver.names[resolver.next])
  /\ resolverFrame

\* for (const dep of feature.dependencies) visit(dep)
resolveDependency ==
  /\ resolver.phase = "visiting"
  /\ resolver.stack # <<>>
  /\ LET top == resolver.stack[Len(resolver.stack)]
         deps == resolver.registry[top.name]
     IN /\ top.dep <= Len(deps)
        /\ resolver' = visitCalled([resolver EXCEPT !.stack[Len(resolver.stack)].dep = @ + 1],
                                   deps[top.dep])
  /\ resolverFrame

\* resolved.add(name); features.push(feature); and visit returns.
resolveLeave ==
  /\ resolver.phase = "visiting"
  /\ resolver.stack # <<>>
  /\ LET top == resolver.stack[Len(resolver.stack)]
     IN /\ top.dep > Len(resolver.registry[top.name])
        /\ resolver' = [resolver EXCEPT !.stack = SubSeq(@, 1, Len(@) - 1),
                                        !.resolved = @ \cup {top.name},
                                        !.features = Append(@, top.name)]
  /\ resolverFrame

\* return features
resolveReturn ==
  /\ resolver.phase = "visiting"
  /\ resolver.stack = <<>>
  /\ resolver.next > Len(resolver.names)
  /\ resolver' = [resolver EXCEPT !.phase = "returned"]
  /\ resolverFrame

InitResolve ==
  /\ Constructed
  /\ differ = NoDiffer
  /\ \E reg \in Registries, names \in Requests :
        resolver = [NoResolver EXCEPT !.phase = "visiting", !.registry = reg, !.names = names]

NextResolve ==
  \/ resolveNext
  \/ resolveDependency
  \/ resolveLeave
  \/ resolveReturn

SpecResolve == InitResolve /\ [][NextResolve]_vars

InitDiff ==
  /\ Constructed
  /\ resolver = NoResolver
  /\ \E a \in Schemas, b \in Schemas :
        differ = [NoDiffer EXCEPT !.phase = "input", !.old = a, !.new = b]

NextDiff ==
  \/ diffCompare
  \/ diffApply

SpecDiff == InitDiff /\ [][NextDiff]_vars

\* The texts the schema file is edited to.
EditedSources == {SrcUsers, SrcBlog}

\* generate() and edits of the schema file.
NextGen ==
  \/ \E f \in BOOLEAN, d \in BOOLEAN, k \in FailPoints : generate(f, d, k)
  \/ \E src \in EditedSources : EditSchema(src)

SpecGen == Init /\ [][NextGen]_vars

TypeOK ==
  /\ pc \in {"idle", "run_ensure", "run_current", "run_files", "run_loop", "tx_exec",
             "tx_insert", "tx_commit", "tx_rollback", "run_catch", "run_finally",
             "st_health", "st_table", "st_ledger", "st_files", "st_finally"}
  /\ DOMAIN migrations \subseteq 1..MaxFile

\* ================================================================ claims

\* C1: within one run() the transactions are started in strictly ascending
\* migration number, the applied list is strictly ascending, and when a
\* transaction is started every migration started earlier in the run has
\* committed (no transaction is open besides the newest one).
C1_AscendingOneAtATime ==
  /\ StrictlyAscending(begun)
  /\ StrictlyAscending(migrationsApplied)
  /\ \A i \in 1..Len(begun) : i < Len(begun) => begun[i] \in committedInRun
  /\ txOpen => (Len(begun) > 0 /\ Last(begun) \notin committedInRun
                /\ Last(begun) = pendingMigrations[idx].number)

\* A second transaction of the run is open after the first one committed.
C1_Witness ==
  /\ txOpen
  /\ Len(begun) = 2
  /\ begun[1] \in committedInRun

\* C2: after a statement of a migration, or its ledger INSERT, failed, the
\* transaction is closed, the committed schema effects and the committed
\* ledger are those from before the attempt, and so is MAX(number).
C2_FailedMigrationRolledBack ==
  (failedMig # 0 /\ (pc \in {"run_catch", "run_finally"} \/ returned = "run")) =>
     /\ ~txOpen
     /\ txEffects = {}
     /\ txRows = {}
     /\ schemaDb = preSchema
     /\ ledger = preLedger
     /\ MaxNumber(ledger) = MaxNumber(preLedger)

\* A migration of two statements failed on its second statement: the first
\* statement had taken effect inside the transaction.
C2_Witness ==
  /\ pc = "run_catch"
  /\ failedMig # 0
  /\ stmtIdx = 2
  /\ Len(Statements(pendingMigrations[idx].content)) = 2
  /\ <<failedMig, 1>> \notin schemaDb

\* C3: when migration k failed inside run(), k is the last migration the run
\* attempted, every migration the run committed is in the ledger, and k and
\* every on-disk migration above k are pending (not in the ledger).
C3_FailureStopsRun ==
  (returned = "run" /\ failedMig # 0) =>
     /\ Last(begun) = failedMig
     /\ \A i \in 1..Len(begun) : begun[i] <= failedMig
     /\ committedInRun \subseteq Numbers(ledger)
     /\ \A n \in DOMAIN migrations : n >= failedMig => n \notin Numbers(ledger)

\* The texts a migration file of the model can hold.
KnownContents == Contents \cup { generateCreateSchema(parse(src)) : src \in Sources }

\* The statements of migration n: those of the text its ledger row records
\* by checksum when it has a row, else those of the file on disk.
StatementsOf(n) ==
  IF n \in Numbers(ledger)
  THEN LET r == CHOOSE q \in ledger : q.number = n
       IN Statements(CHOOSE c \in KnownContents : calculateChecksum(c) = r.checksum)
  ELSE Statements(migrations[n])

\* All statements of migration n are committed.
SchemaCommitted(n) ==
  /\ n \in DOMAIN migrations
  /\ \A i \in 1..Len(StatementsOf(n)) : <<n, i>> \in schemaDb

\* C4: in every reachable state the statements of migration n are committed
\* exactly when the ledger holds a row numbered n, and no statement of a
\* migration without a ledger row is committed.
C4_LedgerMatchesSchema ==
  /\ \A n \in 1..MaxFile : SchemaCommitted(n) <=> n \in Numbers(ledger)
  /\ \A e \in schemaDb : e[1] \in Numbers(ledger)

\* A run committed one migration and rolled back the next one, which had
\* executed a statement.
C4_Witness ==
  /\ returned = "run"
  /\ failedMig # 0
  /\ committedInRun # {}
  /\ stmtIdx >= 2

\* The migrations a run without failure is to apply: on disk, above the
\* ledger's MAX(number), not above target, only the lowest when single.
ExpectedApplied(rows, opts) ==
  LET above == { n \in DOMAIN migrations :
                   /\ n > OrZero(MaxNumber(rows))
                   /\ (opts.target = 0 \/ n <= opts.target) }
  IN IF opts.single /\ above # {}
     THEN { CHOOSE n \in above : \A k \in above : n <= k }
     ELSE above

\* C5: a run() in which no call fails applies exactly the on-disk migrations
\* above the ledger version (capped by target, one when single), and a
\* status() afterwards reports the ledger's MAX(number) as current and the
\* files that are not in the ledger as pending.
C5_RunAppliesExactlyPending ==
  /\ (returned = "run" /\ ~fault /\ ~options.dryRun) =>
        /\ runResult.success
        /\ SeqSet(runResult.migrationsApplied) = ExpectedApplied(startLedger, options)
  /\ (returned = "status" /\ ~fault) =>
        /\ statusResult.currentVersion = OrZero(MaxNumber(ledger))
        /\ SeqSet(statusResult.pendingMigrations) = DOMAIN migrations \ Numbers(ledger)

\* C6: the current version run() selects pending migrations with is the
\* largest ledger number, 0 for an empty ledger.
C6_CurrentIsLedgerMax ==
  (pc = "run_files" /\ ~fault) => OrZero(currentMigration) = OrZero(MaxNumber(ledger))

\* C7: a run() in which a migration failed returns success = false, the
\* migrations committed in this run as migrationsApplied, and the ledger's
\* MAX(number) as currentMigration.
C7_FailedResultIsAccurate ==
  (returned = "run" /\ failedMig # 0) =>
     /\ ~runResult.success
     /\ SeqSet(runResult.migrationsApplied) = committedInRun
     /\ runResult.currentMigration = OrZero(MaxNumber(ledger))

C9_DisconnectedOnReturn ==
  (pc = "idle" /\ returned \in {"run", "status"}) => ~connected

\* The last two generate() calls came one after the other with no change of
\* the schema file between them, force unset in both, and the second returned.
TwiceInARow ==
  /\ prevGen.valid
  /\ ~prevGen.opts.force
  /\ ~genOpts.force
  /\ genOutcome = "returned"

C11_FirstGenerateWritesFullSchema ==
  (genOutcome = "returned" /\ ~genOpts.dryRun /\ ~genCall.before.snapshotSql.exists) =>
     /\ genCall.number = 1
     /\ 1 \in DOMAIN migrations
     /\ migrations[1] = generateCreateSchema(parse(schemaFile))
     /\ snapshotSql = File(generateCreateSchema(parse(schemaFile)))
     /\ snapshotDbml = File(schemaFile)

\* The directory is as it was when the last generate() started.
DirectoryUntouched ==
  /\ migrations = genCall.before.migrations
  /\ snapshotSql = genCall.before.snapshotSql
  /\ snapshotDbml = genCall.before.snapshotDbml

\* C12: a generate() with dryRun set, on the first-run path and on the
\* incremental path, returning or raising, leaves every numbered migration
\* file and both snapshot files as they were.
C12_DryRunWritesNothing ==
  (genOutcome # "none" /\ genOpts.dryRun) => (DirectoryUntouched /\ genWrote = {})

\* A dry run on the incremental path that returned a non-empty change list.
C12_Witness ==
  /\ genOutcome = "returned"
  /\ genOpts.dryRun
  /\ genCall.before.snapshotSql.exists
  /\ Len(genResult.changes) > 0
  /\ genResult.filename = plainFileName(getNextMigrationNumber)

\* C13: a generate() that writes a migration file writes it under a number
\* strictly greater than the number of every migration file that was on disk
\* when it started, also after earlier calls that raised between their writes.
C13_NeverOverwritesMigration ==
  genCall.number # 0 =>
     \A n \in DOMAIN genCall.before.migrations : n < genCall.number

\* A migration file on disk whose checksum differs from the checksum of its
\* ledger row.
ChangedSinceApplied(rows) ==
  \E r \in rows : /\ r.number \in DOMAIN migrations
                  /\ calculateChecksum(migrations[r.number]) # r.checksum

\* C14: a run() started while an applied migration file differs from the
\* checksum in its ledger row does not return a successful result.
C14_ChangedFileIsReported ==
  (returned = "run" /\ ChangedSinceApplied(startLedger)) => ~runResult.success

\* C15: no step of run(), getStatus() or rollback() updates or deletes a
\* committed ledger row: after every step each row is still there and is the
\* only row of its number.
C15_LedgerRowsAreNeverChanged ==
  [][\A r \in ledger : { q \in ledger' : q.number = r.number } = {r}]_vars

\* A run() executed again a migration whose file was changed after it was
\* applied, and returned with the ledger as it was.
C15_Witness ==
  /\ returned = "run"
  /\ failedMig \in Numbers(startLedger)
  /\ ChangedSinceApplied(startLedger)
  /\ ledger = startLedger

\* C16: with two run() invocations interleaving, a transaction commits a
\* migration only when the ledger has no row of its number, so no number is
\* recorded twice and no migration's statements are committed twice; rows of
\* one number are one row.
C16_CommittedAtMostOnce ==
  [][/\ \A n \in committedInRun' \ committedInRun : n \notin Numbers(ledger)
     /\ \A n \in peer'.committed \ peer.committed : n \notin Numbers(ledger)
     /\ \A r, q \in ledger' : r.number = q.number => r = q]_vars

\* Both processes started a transaction for the same migration while the
\* ledger did not hold it; the second process committed it and the INSERT of
\* the first was rejected by the primary key and rolled back.
C16_Witness ==
  /\ returned = "run"
  /\ ~fault
  /\ failedMig # 0
  /\ failedMig \notin Numbers(startLedger)
  /\ failedMig \in peer.committed
  /\ failedMig \notin committedInRun
  /\ txRows = {}
  /\ txEffects = {}

\* C17: when rollback() returns, no migration above its target (every
\* migration, with no target) is recorded in the ledger.
C17_RollbackRemovesAboveTarget ==
  returned = "rollback" => \A n \in Numbers(ledger) : n <= options.target

\* C18: compare(S, S) is the empty change list, for every schema S.
C18_CompareWithItselfIsEmpty ==
  (differ.phase \in {"compared", "applied"} /\ differ.old = differ.new) =>
     differ.changes = <<>>

\* compare(S, S) was computed for a schema with two tables, an index and a
\* reference.
C18_Witness ==
  /\ differ.phase = "compared"
  /\ differ.old = differ.new
  /\ Len(differ.old.tables) = 2
  /\ Len(differ.old.indexes) = 1
  /\ Len(differ.old.refs) = 1
  /\ differ.changes = <<>>

\* The place of a kind of change in the order drop_foreign_key, drop_index,
\* drop_table, create_table, alter_table, create_index, add_foreign_key.
KindRank(kind) ==
  CASE kind = "drop_foreign_key" -> 1
    [] kind = "drop_index" -> 2
    [] kind = "drop_table" -> 3
    [] kind = "create_table" -> 4
    [] kind = "alter_table" -> 5
    [] kind = "create_index" -> 6
    [] kind = "add_foreign_key" -> 7

\* C19: the change list compare() returns is sorted by kind in the order
\* drop_foreign_key, drop_index, drop_table, create_table, alter_table,
\* create_index, add_foreign_key.
C19_ChangesSortedByKind ==
  differ.phase \in {"compared", "applied"} =>
     \A i, j \in 1..Len(differ.changes) :
        i < j => KindRank(differ.changes[i].type) <= KindRank(differ.changes[j].type)

\* The columns of every table, the indexes and the references of schema b
\* are those of the database db.
InPlace(db, b) ==
  /\ { [name |-> t.name, fields |-> SeqSet(t.fields)] : t \in SeqSet(db.tables) }
       = { [name |-> t.name, fields |-> SeqSet(t.fields)] : t \in SeqSet(b.tables) }
  /\ { [key |-> indexKey(ix), columns |-> ix.columns, unique |-> ix.unique, type |-> ix.type] :
         ix \in SeqSet(db.indexes) }
       = { [key |-> indexKey(ix), columns |-> ix.columns, unique |-> ix.unique, type |-> ix.type] :
             ix \in SeqSet(b.indexes) }
  /\ { [key |-> refKey(r), onDelete |-> r.onDelete, onUpdate |-> r.onUpdate] :
         r \in SeqSet(db.refs) }
       = { [key |-> refKey(r), onDelete |-> r.onDelete, onUpdate |-> r.onUpdate] :
             r \in SeqSet(b.refs) }

\* C20: after the SQL of compare(A, B) has been applied to a database in
\* state A, it was applied without error, the diff of the database against B
\* is empty, and every column attribute, index and reference of B is in place.
C20_ApplyingTheDiffConverges ==
  differ.phase = "applied" =>
     /\ ~differ.failed
     /\ compare(differ.result, differ.new) = <<>>
     /\ InPlace(differ.result, differ.new)

\* C21: for every index present in both schemas on the same table whose
\* columns, uniqueness or method differ, the change list holds a drop_index
\* of the old definition and a create_index of the new one.
C21_ChangedIndexIsDroppedAndCreated ==
  differ.phase \in {"compared", "applied"} =>
     \A o \in SeqSet(differ.old.indexes), n \in SeqSet(differ.new.indexes) :
        (/\ indexKey(o) = indexKey(n)
         /\ <<o.columns, o.unique, o.type>> # <<n.columns, n.unique, n.type>>)
        => /\ \E c \in SeqSet(differ.changes) :
                 c.type = "drop_index" /\ c.name = indexName(o)
           /\ \E c \in SeqSet(differ.changes) :
                 c.type = "create_index" /\ c.sql = generateCreateIndexSQL(n)

\* The positions in the change list of the changes to one attribute of
\* column f of table t, told by the statement: attr is "type", "not_null",
\* "default" or "unique".
AttributeChanges(changes, t, f, attr) ==
  { i \in DOMAIN changes :
      /\ changes[i].type = "alter_table"
      /\ changes[i].table = t
      /\ LET sql == changes[i].sql
         IN CASE attr = "type" ->
                   sql[3] = "ALTER COLUMN" /\ sql[4] = f /\ sql[5] = "TYPE"
              [] attr = "not_null" ->
                   sql[3] = "ALTER COLUMN" /\ sql[4] = f
                   /\ sql[5] \in {"SET NOT NULL", "DROP NOT NULL"}
              [] attr = "default" ->
                   sql[3] = "ALTER COLUMN" /\ sql[4] = f
                   /\ sql[5] \in {"SET DEFAULT", "DROP DEFAULT"}
              [] attr = "unique" ->
                   sql[3] \in {"ADD CONSTRAINT", "DROP CONSTRAINT IF EXISTS"}
                   /\ sql[Len(sql)] = f }

ComparedAttributes == {"type", "not_null", "default", "unique"}

\* C22: for every column present in both schemas, the change list holds
\* exactly one alter_table change for each of type, not-null, default and
\* unique that differs and none for one that is equal.
C22_OneChangePerDifferingAttribute ==
  differ.phase \in {"compared", "applied"} =>
     \A o \in SeqSet(differ.old.tables), n \in SeqSet(differ.new.tables) :
        o.name = n.name =>
           \A f \in SeqSet(o.fields), g \in SeqSet(n.fields) :
              f.name = g.name =>
                 \A attr \in ComparedAttributes :
                    Cardinality(AttributeChanges(differ.changes, n.name, g.name, attr))
                      = IF f[attr] # g[attr] THEN 1 ELSE 0

\* compare() was given a column that differs in all four attributes and
\* the change list holds four changes.
C22_Witness ==
  /\ differ.phase = "compared"
  /\ \E o \in SeqSet(differ.old.tables), n \in SeqSet(differ.new.tables) :
        /\ o.name = n.name
        /\ \E f \in SeqSet(o.fields), g \in SeqSet(n.fields) :
              /\ f.name = g.name
              /\ \A attr \in ComparedAttributes : f[attr] # g[attr]
  /\ Len(differ.changes) = 4

\* A schema with the actions of its references left out.
WithoutActions(schema) ==
  [schema EXCEPT !.refs = [i \in 1..Len(schema.refs) |->
                             [schema.refs[i] EXCEPT !.onDelete = UndefStr,
                                                    !.onUpdate = UndefStr]]]

\* C23: two schemas that differ only in the onDelete or onUpdate action of
\* references with unchanged endpoints give no add_foreign_key and no
\* drop_foreign_key change.
C23_ActionChangeIsNoForeignKeyChange ==
  (/\ differ.phase \in {"compared", "applied"}
   /\ WithoutActions(differ.old) = WithoutActions(differ.new))
  => \A c \in SeqSet(differ.changes) : c.type \notin {"add_foreign_key", "drop_foreign_key"}

\* compare() was given two schemas whose one reference differs in onDelete
\* only and returned no change.
C23_Witness ==
  /\ differ.phase = "compared"
  /\ differ.old # differ.new
  /\ WithoutActions(differ.old) = WithoutActions(differ.new)
  /\ Len(differ.old.refs) = 1
  /\ differ.old.refs[1].onDelete # differ.new.refs[1].onDelete
  /\ differ.changes = <<>>

\* C24: rendering a full schema with a reference whose source or target
\* table or column is not in the schema ends with an error and returns no
\* SQL.
C24_DanglingReferenceIsRefused ==
  (/\ differ.phase = "rendered"
   /\ \E r \in SeqSet(differ.new.refs) : dangling(differ.new, r))
  => differ.failed /\ differ.sql = <<>>

\* No migration file below the ledger's MAX(number) lacks a ledger row.
GapFree(files, rows) ==
  \A n \in files : n < OrZero(MaxNumber(rows)) => n \in Numbers(rows)

\* C25: over run() calls and additions of migration files, every number
\* committed to the ledger is above every number committed before it, and no
\* on-disk migration below the ledger's MAX(number) is missing from the
\* ledger.
C25_LedgerAscendingAndGapFree ==
  [][/\ \A n \in Numbers(ledger') \ Numbers(ledger) : n > OrZero(MaxNumber(ledger))
     /\ GapFree(DOMAIN migrations', ledger')]_vars

\* C26: when the run command has finished after a run() whose result is
\* failed, the process ended with exit code 1 and did not print that
\* migrations were successfully applied.
C26_FailedRunExitsWithError ==
  (cli.done /\ ~runResult.success) =>
     cli.exit = 1 /\ cli.printed # "Successfully applied"

\* C27: the filename a generate() with dryRun returns is the one the same
\* call without dryRun would write: 0001.sql on the first run, else the next
\* migration number as a four-digit zero-padded name.
C27_DryRunReturnsTheWrittenName ==
  (/\ genOutcome = "returned"
   /\ genOpts.dryRun
   /\ genResult.filename # NoFileName)
  => genResult.filename = IF ~snapshotSql.exists /\ ~genOpts.force THEN FileName(1)
                          ELSE paddedFileName(getNextMigrationNumber)

\* The schema file that the numbered migration files add up to: nothing
\* before the first file; the schema whose full rendering is file 0001; after
\* a file holding the changes from the schema so far to schema b, b.  A file
\* that is neither makes the outcome unknown.
NothingCaptured == [known |-> TRUE, src |-> [tables |-> <<>>, refs |-> <<>>]]

capturedBy(cap, n, content) ==
  IF ~cap.known THEN cap
  ELSE IF n = 1 /\ \E src \in EditedSources : content = generateCreateSchema(parse(src))
  THEN [known |-> TRUE,
        src |-> CHOOSE src \in EditedSources : content = generateCreateSchema(parse(src))]
  ELSE LET next == { b \in EditedSources \cup {cap.src} :
                       content = generateMigrationSQL(compare(parse(cap.src), parse(b))) }
       IN IF next = {} THEN [known |-> FALSE, src |-> cap.src]
          ELSE [known |-> TRUE, src |-> CHOOSE b \in next : TRUE]

RECURSIVE capturedUpTo(_, _)
capturedUpTo(files, n) ==
  IF n = 0 THEN NothingCaptured
  ELSE IF n \notin DOMAIN files THEN capturedUpTo(files, n - 1)
  ELSE capturedBy(capturedUpTo(files, n - 1), n, files[n])

Captured(files) == capturedUpTo(files, MaxFile + 1)

\* C28: once a generate() was cut short by a failing file write and the
\* schema file was changed afterwards, a generate() without force that
\* returns leaves the numbered migration files adding up to the schema file:
\* no change is missing from them and none is in them twice.
C28_InterruptedGenerateLosesNothing ==
  (/\ genOutcome = "returned"
   /\ ~genOpts.force
   /\ ~genOpts.dryRun
   /\ genCall.interruption = "edited"
   /\ ~genCall.forced
   /\ Captured(genCall.before.migrations).known)
  => Captured(migrations) = [known |-> TRUE, src |-> schemaFile]

\* C29: no step of a run() with dryRun set changes the database: the
\* committed statement effects, the ledger rows and the existence of the
\* ledger table stay as they are.
C29_DryRunLeavesDatabaseAlone ==
  [][(options.dryRun /\ pc # "idle")
       => <<ledgerTable, ledger, schemaDb>>' = <<ledgerTable, ledger, schemaDb>>]_vars

\* The features reached from the requested names through dependencies.
RECURSIVE reachedFrom(_, _)
reachedFrom(registry, names) ==
  LET more == names \cup UNION { SeqSet(registry[n]) : n \in names }
  IN IF more = names THEN names ELSE reachedFrom(registry, more)

\* C30: resolve does not end by raising, and what it returns holds each
\* requested feature and each transitive dependency exactly once, every
\* feature after all of its dependencies.
C30_ResolveReturnsDependenciesFirst ==
  /\ resolver.phase # "raised"
  /\ resolver.phase = "returned" =>
        LET fs == resolver.features
        IN /\ SeqSet(fs) = reachedFrom(resolver.registry, SeqSet(resolver.names))
           /\ \A i, j \in 1..Len(fs) : i # j => fs[i] # fs[j]
           /\ \A j \in 1..Len(fs) :
                 \A d \in SeqSet(resolver.registry[fs[j]]) :
                    \E i \in 1..(j - 1) : fs[i] = d

====
